---- MODULE Spec2Model ----
(***************************************************************************)
(* Vault sync engine of scion-server: the git-backed Content Store (db.ts),*)
(* the SQLite Identity Store (metadata.ts), the v2 operation handlers      *)
(* (sync-operations.ts) and the HTTP handlers of server.ts, for ONE vault. *)
(*                                                                         *)
(* A file's bytes are a sequence of lines.  Commit identifiers are the     *)
(* positions of the commit objects in the object store (git hashes are     *)
(* unique per object), file_ids are the positions of the rows in the       *)
(* `files` table (uuidv4 values are fresh), 0 stands for null / '' /       *)
(* undefined.  Timestamps are not modelled, except for the clock second    *)
(* that the manifest file records (see renameFile).                        *)
(*                                                                         *)
(* Intermediate results are bound as operator parameters, in the order of  *)
(* the code's statements.                                                  *)
(***************************************************************************)
EXTENDS Integers, Sequences, FiniteSets, TLC

\* Cap on the number of commit objects a vault may hold (bounds the model).
MaxCommits == 7

\* Cap on commit objects for the merge-centred specification.
MaxMergeCommits == 4

\* Cap on commit objects for the specification of long identity histories.
MaxDeepCommits == 8

\* Cap on commit objects for the batch specification.
MaxBatchCommits == 4

\* Longest batch of the batch specification.
MaxBatchLen == 3
\* the Reserved specification
MaxReservedCommits == 5
\* the Names specification
MaxNamesCommits == 3
\* the Live specification
MaxLiveCommits == 4
\* Sockets opened in one behaviour.
MaxSockets == 2
\* Inbound frames of one socket.
MaxFrames == 2
\* the Channels specification
MaxChannelsCommits == 3
\* Runs of the heartbeat, and clock readings per heartbeat interval.
MaxBeats == 4
StepsPerBeat == 2
\* the Crash specification
MaxCrashCommits == 4
\* Identity records in the table when the process is stopped.
MaxCrashRows == 2
\* the Paths specification
MaxPathsCommits == 3
\* Identity records in the table when a request is accepted.
MaxPathsRows == 2

----------------------------------------------------------------------------
(* Input universes.  Every text of the model has three lines and the line  *)
(* at position i is one of Li, Lia (edited by client A), Lib (edited by    *)
(* client B): lines are unique inside a text, so the line alignment that   *)
(* `git merge-file` computes is the positional one.                        *)

BaseText == <<"L1", "L2", "L3">>
TextA1 == <<"L1a", "L2", "L3">>
TextB1 == <<"L1b", "L2", "L3">>
TextB2 == <<"L1", "L2b", "L3">>
TextB3 == <<"L1", "L2", "L3b">>

\* Paths in the order `git ls-files` prints them (byte order).
PathOrder == <<"a.md", "b.md", "c.md">>

\* The manifest file, and a path under .scion/ that a client may name.
ManifestPath == ".scion/manifest.json"
ReservedPath == ".scion/x.md"
\* The strings f of the model with f.startsWith('.scion/').
ScionPaths == {ManifestPath, ReservedPath}
\* All paths in the order git prints them.
GitOrder == <<ReservedPath>> \o PathOrder

\* Universe of the identity-centred specification: three paths, one text,
\* renames without new content.
UId == [paths |-> {"a.md", "b.md", "c.md"},
        rpaths |-> {"a.md", "b.md", "c.md"},
        texts |-> {BaseText},
        contents |-> {{}},
        atomics |-> {TRUE},
        ticks |-> {TRUE, FALSE},
        maxc |-> MaxCommits]

\* Universe of the merge-centred specification: uploads go to one path,
\* which a rename can move to a second one; five texts.
UMerge == [paths |-> {"a.md"},
           rpaths |-> {"a.md", "b.md"},
           texts |-> {BaseText, TextA1, TextB1, TextB2, TextB3},
           contents |-> {{}, {TextA1}},
           atomics |-> {TRUE, FALSE},
           ticks |-> {TRUE},
           maxc |-> MaxMergeCommits]

\* Universe of the specification of long identity histories: two paths, one
\* text, and room for one more commit than the identity-centred one.
UDeep == [paths |-> {"a.md", "b.md"},
          rpaths |-> {"a.md", "b.md"},
          texts |-> {BaseText},
          contents |-> {{}},
          atomics |-> {TRUE},
          ticks |-> {TRUE},
          maxc |-> MaxDeepCommits]

\* Universe of the batch specification: batches of create, modify, delete
\* and rename operations and of operations without a type; a create may
\* carry zero bytes.
UReserved == [paths |-> {ReservedPath, "a.md"},
              rpaths |-> {ReservedPath, "a.md", "b.md"},
              texts |-> {BaseText},
              contents |-> {{}},
              atomics |-> {TRUE},
              ticks |-> {TRUE},
              maxc |-> MaxReservedCommits]

UBatch == [paths |-> {"a.md", "b.md"},
           creates |-> {BaseText, <<>>},
           edits |-> {TextA1},
           renames |-> {<<"a.md", "b.md">>},
           atomics |-> {TRUE, FALSE},
           ticks |-> {TRUE},
           maxc |-> MaxBatchCommits]

----------------------------------------------------------------------------
(* computeHash: SHA-256 of the bytes, modelled as an injective tagging.    *)
computeHash(content) == <<"sha256">> \o content

Min(S) == CHOOSE x \in S : \A y \in S : x <= y
Max(S) == CHOOSE x \in S : \A y \in S : x >= y

----------------------------------------------------------------------------
(* mergeFile: `git merge-file -L LOCAL -L BASE -L REMOTE local base remote`*)
(* on texts of equal length with positional alignment; base = <<>> is the  *)
(* empty file the handlers pass when the path did not exist at the base.   *)
(* xdiff merges at level ZEALOUS_ALNUM: hunks of the two sides that touch  *)
(* or are adjacent form one region; a region changed by both sides in      *)
(* different ways is a conflict, refined to the positions where the sides  *)
(* differ, and conflicts at most 3 lines apart are joined again.           *)

MarkLocal == "<<<<<<< LOCAL"
MarkSep == "======="
MarkRemote == ">>>>>>> REMOTE"
Markers == {MarkLocal, MarkSep, MarkRemote}

\* The positions a side changed against the base.
ChangedIn(base, x) == {i \in 1..Len(x) : base = <<>> \/ x[i] # base[i]}

\* The maximal run of touched positions around position i.
RegionOf(touched, n, i) ==
  {k \in 1..n : \A j \in (IF k <= i THEN k..i ELSE i..k) : j \in touched}

\* Adjacent hunks conflict as well (guard s1 + c1 < s2 of xdl_do_merge):
\* the positions where the sides differ inside a run both sides changed.
ConflictPos(cl, cr, l, r) ==
  {i \in cl \cup cr :
     /\ l[i] # r[i]
     /\ RegionOf(cl \cup cr, Len(l), i) \cap cl # {}
     /\ RegionOf(cl \cup cr, Len(l), i) \cap cr # {}}

\* The touched positions outside every conflicting run.
CleanTouched(cl, cr, l, r) ==
  {i \in cl \cup cr :
     RegionOf(cl \cup cr, Len(l), i) \cap ConflictPos(cl, cr, l, r) = {}}

\* xdl_simplify_merge: neighbouring conflicts with a gap of <= 3 lines join.
Bridged(conf, clean, n) ==
  {i \in (1..n) \ conf :
     \E p \in conf : \E q \in conf :
       /\ p < i /\ i < q /\ q - p - 1 <= 3
       /\ \A j \in (p + 1)..(q - 1) : j \notin conf /\ j \notin clean}

BlockEnd(block, n, i) ==
  CHOOSE e \in i..n :
    /\ \A k \in i..e : k \in block
    /\ (e = n \/ (e + 1) \notin block)

RECURSIVE MergeFrom(_, _, _, _, _)
MergeFrom(block, cl, l, r, i) ==
  LET Conflict(e) ==
        <<MarkLocal>> \o SubSeq(l, i, e) \o <<MarkSep>> \o SubSeq(r, i, e)
          \o <<MarkRemote>> \o MergeFrom(block, cl, l, r, e + 1)
  IN IF i > Len(l) THEN <<>>
     ELSE IF i \in block THEN Conflict(BlockEnd(block, Len(l), i))
     ELSE <<(IF i \in cl THEN l[i] ELSE r[i])>> \o MergeFrom(block, cl, l, r, i + 1)

\* Faulty variant of mergeFile: the server's bytes win, the client's edit is lost.
mergeTakeRemote(base, local, remote) == [merged |-> remote, hasConflicts |-> FALSE]

\* Faulty variant of mergeFile: the client's bytes win, the server's edit is lost.
mergeTakeLocal(base, local, remote) == [merged |-> local, hasConflicts |-> FALSE]

mergeFile(base, local, remote) ==
  LET Result(cl, conf) ==
        [merged |-> MergeFrom(conf \cup Bridged(conf,
                                 CleanTouched(cl, ChangedIn(base, remote), local, remote),
                                 Len(local)),
                              cl, local, remote, 1),
         hasConflicts |-> conf # {}]
      Sides(cl, cr) == Result(cl, ConflictPos(cl, cr, local, remote))
  IN Sides(ChangedIn(base, local), ChangedIn(base, remote))

HasMarkers(content) == \E i \in 1..Len(content) : content[i] \in Markers

----------------------------------------------------------------------------
(* State of one vault.                                                     *)
VARIABLES
  files,    \* working tree of user files: path -> bytes (DOMAIN = paths on disk)
  objects,  \* git object store: commit id -> [tree, manifest, parent]
  head,     \* HEAD commit id
  recs,     \* `files` table of metadata.db: file_id -> row, in insertion order
  hist,     \* `path_history` table: rows [file_id, old_path, new_path]
  mfile,    \* .scion/manifest.json in the working directory
  last,     \* the request being answered and its response
  dirs,     \* the vault names that have a directory under VAULT_ROOT
  docs,     \* `yjs_documents` rows of the vault: file_id -> CRDT state
  clients,  \* WebSocketManager.clients: vault name -> ConnectedClient entries
  pending,  \* per device, the request or message the server has received
  sockets,  \* the WebSocket objects handed to the manager, in creation order
  now,      \* Date.now()
  heartbeat,\* the time at which the setInterval timer of the manager fires next
  modules,  \* the lazily imported handler modules that are loaded
  tasks     \* the update handlers suspended at `await getYjsSync()` etc.

stores == <<files, objects, head, recs, hist, mfile>>
timers == <<now, heartbeat>>
loader == <<modules, tasks>>
live == <<dirs, docs, clients, pending, sockets, timers, loader>>
vars == <<files, objects, head, recs, hist, mfile, last, dirs, docs, clients, pending,
          sockets, now, heartbeat, modules, tasks>>

\* The stores as one value, so that handlers compose like the code's calls.
Cur == [files |-> files, objects |-> objects, head |-> head,
        recs |-> recs, hist |-> hist, mfile |-> mfile]

Install(s) ==
  /\ files' = s.files
  /\ objects' = s.objects
  /\ head' = s.head
  /\ recs' = s.recs
  /\ hist' = s.hist
  /\ mfile' = s.mfile

\* An absent manifest file.
NoManifest == [exists |-> FALSE, rows |-> {}]

----------------------------------------------------------------------------
(* Content Store primitives (db.ts).                                       *)

\* initVaultGit: `git init`, .gitignore, the commit "Initialize vault".
initVaultGit ==
  [files |-> <<>>,
   objects |-> <<[tree |-> <<>>, manifest |-> NoManifest, parent |-> 0]>>,
   head |-> 1, recs |-> <<>>, hist |-> <<>>, mfile |-> NoManifest]

getHeadCommit(s) == s.head

\* getCurrentFile / fileExists: null is the empty set, bytes b the set {b}.
fileExists(s, p) == p \in DOMAIN s.files
getCurrentFile(s, p) == IF p \in DOMAIN s.files THEN {s.files[p]} ELSE {}

Blob(tree, p) == IF p \in DOMAIN tree THEN {tree[p]} ELSE {}

\* getFileAtCommit: `git show c:p`; null when c or p@c does not exist.
getFileAtCommit(s, p, c) ==
  IF c \in 1..Len(s.objects) THEN Blob(s.objects[c].tree, p) ELSE {}

\* Faulty variant of LogPath: the oldest commit that changed p.
LogPathFirst(objs, c, p) ==
  LET First(touching) == IF touching = {} THEN 0 ELSE Min(touching)
  IN First({k \in 1..c :
              Blob(objs[k].tree, p) #
                (IF objs[k].parent = 0 THEN {} ELSE Blob(objs[objs[k].parent].tree, p))})

\* `git log -1 --format=%H -- p`: the newest commit on HEAD's ancestry whose
\* tree differs from its parent's at p; '' (0) when there is none.
RECURSIVE LogPath(_, _, _)
LogPath(objs, c, p) ==
  IF c = 0 THEN 0
  ELSE IF Blob(objs[c].tree, p) #
          (IF objs[c].parent = 0 THEN {} ELSE Blob(objs[objs[c].parent].tree, p))
  THEN c
  ELSE LogPath(objs, objs[c].parent, p)

\* A request path with `..` segments that path.join(vaultPath, p) resolves
\* to a.md in the directory of the vault v2; `files` holds the bytes found
\* at the resolved place, as fse reads and writes them.
EscapingPath == "../v2/a.md"

\* path.join(vaultPath, p) lies outside vaultPath.
Escapes(p) == p = EscapingPath

\* The files of fs that lie in the vault directory: what `git add` stages.
InVault(fs) == [q \in {p \in DOMAIN fs : ~Escapes(p)} |-> fs[q]]

WriteFile(fs, p, content) ==
  [q \in DOMAIN fs \cup {p} |-> IF q = p THEN content ELSE fs[q]]

RemoveFile(fs, p) == [q \in DOMAIN fs \ {p} |-> fs[q]]

\* `git commit`: a new object on top of HEAD holding the index, which is the
\* working tree of user files and the manifest as last staged.
GitCommit(s, fs, manifest) ==
  [s EXCEPT !.files = fs,
            !.objects = Append(s.objects,
                 [tree |-> InVault(fs), manifest |-> manifest, parent |-> s.head]),
            !.head = Len(s.objects) + 1]

\* The test `message.includes('nothing to commit')` of commitFile's catch.
\* git() builds the message from the child's stderr, or from the exec
\* message "Command failed: git commit ..." when stderr is empty; git prints
\* its "nothing to commit" notice on stdout, so the text never contains it.
NothingToCommitSeen == FALSE

\* commitFile: write, `git add`, `git commit`.  With the bytes unchanged the
\* commit exits 1; ok = FALSE is the rethrown error.  `git add` of a path
\* outside the repository exits 128 after the file was written.
commitFile(s, p, content) ==
  LET Committed(t) == [ok |-> TRUE, s |-> t, commit |-> t.head] IN
  IF Escapes(p)
  THEN [ok |-> FALSE, s |-> [s EXCEPT !.files = WriteFile(s.files, p, content)],
        commit |-> s.head]
  ELSE IF getCurrentFile(s, p) = {content}
  THEN [ok |-> NothingToCommitSeen, s |-> s, commit |-> s.head]
  ELSE Committed(GitCommit(s, WriteFile(s.files, p, content),
                           s.objects[s.head].manifest))

\* deleteFile: remove, `git add`, `git commit -m "Delete p"`; a throw of
\* git is caught, so a path outside the repository is removed uncommitted.
deleteFile(s, p) ==
  IF ~fileExists(s, p)
  THEN [deleted |-> FALSE, s |-> s]
  ELSE IF Escapes(p)
  THEN [deleted |-> TRUE, s |-> [s EXCEPT !.files = RemoveFile(s.files, p)]]
  ELSE [deleted |-> TRUE,
        s |-> GitCommit(s, RemoveFile(s.files, p), s.objects[s.head].manifest)]

----------------------------------------------------------------------------
(* Identity Store (metadata.ts).                                           *)

ActiveIds(rs) == {f \in 1..Len(rs) : ~rs[f].deleted}

\* A file_id is a uuid, modelled by the position of its row.  When the
\* database file is lost its rows are gone while their uuids are never
\* issued again: the positions stay taken by rows that no query finds.
LostRow == [path |-> "", hash |-> <<>>, commit |-> 0, deleted |-> TRUE]

\* updateGitManifest: rewrite .scion/manifest.json from the non-deleted rows.
updateGitManifest(s) ==
  [s EXCEPT !.mfile = [exists |-> TRUE,
                       rows |-> {<<f, s.recs[f].path>> : f \in ActiveIds(s.recs)}]]

\* getFileById: SELECT ... WHERE file_id = ? (soft-deleted rows included).
getFileById(s, f) ==
  IF f \in 1..Len(s.recs) /\ s.recs[f] # LostRow THEN f ELSE 0

\* getFileByPath: the first non-deleted row at the path, 0 when none.
getFileByPath(s, p) ==
  LET First(at) == IF at = {} THEN 0 ELSE Min(at)
  IN First({f \in ActiveIds(s.recs) : s.recs[f].path = p})

\* getFilesByHash: the non-deleted rows with that content_hash.
getFilesByHash(s, h) == {f \in ActiveIds(s.recs) : s.recs[f].hash = h}

\* createFileRecord: INSERT with a fresh uuid, then updateGitManifest.
createFileRecord(s, p, h, c) ==
  updateGitManifest(
    [s EXCEPT !.recs = Append(s.recs,
        [path |-> p, hash |-> h, commit |-> c, deleted |-> FALSE])])

\* updateFileRecord as ensureFileId calls it: content_hash and git_commit.
updateHashCommit(s, f, h, c) ==
  [s EXCEPT !.recs[f].hash = h, !.recs[f].commit = c]

\* updateFileRecord as renameFile calls it: current_path, content_hash and
\* git_commit of the row with that file_id (deleted or not), then
\* updateGitManifest because the path changed.
updatePathHashCommit(s, f, p, h, c) ==
  updateGitManifest(
    [s EXCEPT !.recs[f].path = p, !.recs[f].hash = h, !.recs[f].commit = c])

\* Faulty variant of recordPathChange: no row is inserted.
recordNoPathChange(s, f, old, new) == s

\* recordPathChange: INSERT INTO path_history.
recordPathChange(s, f, old, new) ==
  [s EXCEPT !.hist = Append(s.hist, [file_id |-> f, old_path |-> old, new_path |-> new])]

\* getAllPreviousPaths: the old_path values of the file's history rows.
getAllPreviousPaths(s, f) ==
  {s.hist[i].old_path : i \in {j \in 1..Len(s.hist) : s.hist[j].file_id = f}}

\* softDeleteFile: UPDATE ... SET deleted_at WHERE file_id = ?, then
\* updateGitManifest when a row was changed.
softDeleteFile(s, f) ==
  IF f \in 1..Len(s.recs) /\ s.recs[f] # LostRow
  THEN updateGitManifest([s EXCEPT !.recs[f].deleted = TRUE])
  ELSE s

\* ensureFileId: the id of the active row at the path, refreshed with the
\* hash and commit given, or a new row.
ensureFileId(s, p, h, c) ==
  LET Ensure(existing) ==
        IF existing # 0
        THEN [s |-> updateHashCommit(s, existing, h, c), id |-> existing]
        ELSE [s |-> createFileRecord(s, p, h, c), id |-> Len(s.recs) + 1]
  IN Ensure(getFileByPath(s, p))

\* Faulty variant of detectRenameByHash: the first row with that hash at
\* another path, soft-deleted rows included.
detectRenameByHashFirst(s, missingPath, h) ==
  LET First(rows) == IF rows = {} THEN 0 ELSE Min(rows)
  IN First({f \in 1..Len(s.recs) :
              s.recs[f].hash = h /\ s.recs[f].path # missingPath})

\* Faulty variant of detectRenameByHash: of several active rows with that
\* hash at another path, the first one.
detectRenameByHashAny(s, missingPath, h) ==
  LET First(rows) == IF rows = {} THEN 0 ELSE Min(rows)
  IN First({f \in getFilesByHash(s, h) : s.recs[f].path # missingPath})

\* detectRenameByHash: the single active row with that hash at another path.
detectRenameByHash(s, missingPath, h) ==
  LET Only(candidates) ==
        IF Cardinality(candidates) = 1 THEN CHOOSE f \in candidates : TRUE ELSE 0
  IN Only({f \in getFilesByHash(s, h) : s.recs[f].path # missingPath})

----------------------------------------------------------------------------
(* Projections of db.ts that also write the Identity Store.                *)

\* getFileRecord: undefined (found = FALSE) when the path is not on disk.
getFileRecord(s, p) ==
  LET Record(h, c, e) ==
        [found |-> TRUE, s |-> e.s, file_id |-> e.id, hash |-> h, commit |-> c]
      Read(h, c) == Record(h, c, ensureFileId(s, p, h, c))
  IN IF ~fileExists(s, p)
     THEN [found |-> FALSE, s |-> s, file_id |-> 0, hash |-> <<>>, commit |-> 0]
     ELSE Read(computeHash(s.files[p]), LogPath(s.objects, s.head, p))

\* `git ls-files` without .gitignore and .scion/*, in git's order.
TrackedFiles(s) ==
  SelectSeq(GitOrder,
            LAMBDA f : f \in DOMAIN s.files /\ f # ".gitignore" /\ f \notin ScionPaths)

\* isVaultBootstrapped: metadata.db exists and its files table has a row.
isVaultBootstrapped(s) == \E f \in 1..Len(s.recs) : s.recs[f] # LostRow

\* The loop of bootstrapVaultMetadata over the tracked files.
RECURSIVE EnsureAll(_, _, _)
EnsureAll(s, paths, i) ==
  IF i > Len(paths) THEN s
  ELSE EnsureAll(ensureFileId(s, paths[i], computeHash(s.files[paths[i]]),
                              LogPath(s.objects, s.head, paths[i])).s,
                 paths, i + 1)

\* bootstrapVaultMetadata: a row per tracked file, the manifest file, and
\* the commit "Initialize Scion metadata" that holds it.
bootstrapVaultMetadata(s) ==
  LET Stage(t) == GitCommit(t, t.files, t.mfile)
  IN Stage(updateGitManifest(EnsureAll(s, TrackedFiles(s), 1)))

\* The loop of getManifest over the tracked files.
RECURSIVE ManifestRows(_, _, _)
ManifestRows(s, paths, i) ==
  LET Row(r, rest) ==
        [s |-> rest.s,
         files |-> <<[file_id |-> r.file_id, path |-> paths[i],
                      hash |-> r.hash, commit |-> r.commit]>> \o rest.files]
      Step(r) == Row(r, ManifestRows(r.s, paths, i + 1))
  IN IF i > Len(paths) THEN [s |-> s, files |-> <<>>]
     ELSE Step(getFileRecord(s, paths[i]))

\* getManifest: one row per tracked file on disk.
getManifest(s) ==
  LET Rows(paths) ==
        ManifestRows(IF Len(paths) > 0 /\ ~isVaultBootstrapped(s)
                     THEN bootstrapVaultMetadata(s) ELSE s,
                     paths, 1)
  IN Rows(TrackedFiles(s))

\* detectRename: by file_id, by hash, then by path history over the manifest.
detectRename(s, missingPath, h, fileId) ==
  LET Found(t, f, p, method) ==
        [s |-> t, found |-> TRUE, new_path |-> p, file_id |-> f, method |-> method]
      History(m, hits) ==
        IF hits # {}
        THEN Found(m.s, m.files[Min(hits)].file_id, m.files[Min(hits)].path,
                   "path_history")
        ELSE [s |-> m.s, found |-> FALSE, new_path |-> "", file_id |-> 0,
              method |-> ""]
      Manifest(m) ==
        History(m, {i \in 1..Len(m.files) :
                      missingPath \in getAllPreviousPaths(m.s, m.files[i].file_id)})
      Hash(byHash) ==
        IF byHash # 0
        THEN Found(s, byHash, s.recs[byHash].path, "hash_match")
        ELSE Manifest(getManifest(s))
  IN IF /\ fileId # 0
        /\ getFileById(s, fileId) # 0
        /\ s.recs[fileId].path # missingPath
        /\ ~s.recs[fileId].deleted
     THEN Found(s, fileId, s.recs[fileId].path, "file_id")
     ELSE Hash(detectRenameByHash(s, missingPath, h))

----------------------------------------------------------------------------
(* renameFile (db.ts).  newContent is {} or {bytes}.  The manifest file    *)
(* records its rows and the clock second of its writing; `tick` says       *)
(* whether the clock second has moved since the manifest that the index    *)
(* holds was written.  With the rows unchanged and the same second,        *)
(* `git commit --amend` reproduces the rename commit; otherwise it         *)
(* replaces it by a new object with the same parent.                       *)

RenameFailed(s, error) == [success |-> FALSE, commit |-> 0, s |-> s, error |-> error]

AmendManifest(s, commit, tick) ==
  IF s.mfile = s.objects[commit].manifest /\ ~tick
  THEN s
  ELSE [s EXCEPT !.objects = Append(s.objects,
                     [tree |-> s.objects[commit].tree, manifest |-> s.mfile,
                      parent |-> s.objects[commit].parent]),
                 !.head = Len(s.objects) + 1]

renameFile(s, fileId, oldPath, newPath, newContent, tick) ==
  LET Renamed(bytes, moved) ==
        [success |-> TRUE, commit |-> moved.head,
         s |-> AmendManifest(
                 updateGitManifest(
                   updatePathHashCommit(
                     recordPathChange(moved, fileId, oldPath, newPath),
                     fileId, newPath, computeHash(bytes), moved.head)),
                 moved.head, tick),
         error |-> ""]
      Move(bytes) ==
        Renamed(bytes,
                GitCommit(s, WriteFile(RemoveFile(s.files, oldPath), newPath, bytes),
                          s.objects[s.head].manifest))
  IN IF ~fileExists(s, oldPath)
     THEN RenameFailed(s, "File not found at old path")
     ELSE IF getFileById(s, fileId) = 0
     THEN RenameFailed(s, "File ID not found in metadata")
     ELSE IF s.recs[fileId].path # oldPath
     THEN RenameFailed(s, "File ID does not match old path")
     ELSE IF fileExists(s, newPath)
     THEN RenameFailed(s, "Git command failed: git mv")  \* destination exists
     ELSE Move(IF newContent # {} THEN CHOOSE b \in newContent : TRUE
               ELSE s.files[oldPath])

----------------------------------------------------------------------------
(* Request bodies carry content as a base64 string: {} is an absent field *)
(* and {bytes} a present one.  The handlers that test `content` for truth *)
(* take the empty string, the encoding of zero bytes, as absent.          *)
Truthy(content) == content # {} /\ content # {<<>>}

----------------------------------------------------------------------------
(* POST /vault/:v/sync (server.ts).  req = [path, content, base_commit].   *)

SyncReply(req, status, commit, h, fileId, merged, conflicts, mergedContent) ==
  [op |-> "sync", path |-> req.path, content |-> req.content,
   base_commit |-> req.base_commit, status |-> status, success |-> status = 200,
   commit |-> commit, hash |-> h, file_id |-> fileId, merged |-> merged,
   has_conflicts |-> conflicts, merged_content |-> mergedContent]

\* commitFile then ensureFileId; an error thrown by commitFile is a 500.
SyncCommit(s, req, bytes, merged) ==
  LET Ensured(c, e) ==
        [s |-> e.s,
         resp |-> SyncReply(req, 200, c.commit, computeHash(bytes), e.id,
                            merged, FALSE, IF merged THEN bytes ELSE <<>>)]
      Committed(c) ==
        IF ~c.ok
        THEN [s |-> c.s, resp |-> SyncReply(req, 500, 0, <<>>, 0, FALSE, FALSE, <<>>)]
        ELSE Ensured(c, ensureFileId(c.s, req.path, computeHash(bytes), c.commit))
  IN Committed(commitFile(s, req.path, bytes))

\* Faulty variant of SyncMerge: the merge result is committed, markers or not.
SyncMergeCommits(s, req, base, server) ==
  SyncCommit(s, req, mergeFile(base, req.content, server).merged, TRUE)

\* The merge cases: conflicts are answered without a commit.
SyncMerge(s, req, base, server) ==
  LET Conflicted(result, e) ==
        [s |-> e.s,
         resp |-> SyncReply(req, 200, s.head, computeHash(result.merged), e.id,
                            TRUE, TRUE, result.merged)]
      Merged(result) ==
        IF result.hasConflicts
        THEN Conflicted(result,
                        ensureFileId(s, req.path, computeHash(result.merged), s.head))
        ELSE SyncCommit(s, req, result.merged, TRUE)
  IN Merged(mergeFile(base, req.content, server))

\* Case 3 with identical bytes: nothing is committed.
SyncIdentical(s, req) ==
  LET Ensured(c, e) ==
        [s |-> e.s,
         resp |-> SyncReply(req, 200, c, computeHash(req.content), e.id,
                            FALSE, FALSE, <<>>)]
      Recorded(record, c) ==
        Ensured(c, ensureFileId(record.s, req.path, computeHash(req.content), c))
      Known(record) ==
        Recorded(record, IF record.commit # 0 THEN record.commit ELSE s.head)
  IN Known(getFileRecord(s, req.path))

syncHandler(s, req) ==
  LET Existing(server, baseContent) ==
        IF req.base_commit # 0 /\ req.base_commit = s.head
        THEN SyncCommit(s, req, req.content, FALSE)
        ELSE IF req.base_commit = 0
        THEN IF computeHash(req.content) = computeHash(server)
             THEN SyncIdentical(s, req)
             ELSE SyncMerge(s, req, server, server)
        ELSE SyncMerge(s, req,
                       IF baseContent = {} THEN <<>>
                       ELSE CHOOSE b \in baseContent : TRUE,
                       server)
  IN IF getCurrentFile(s, req.path) = {}
     THEN SyncCommit(s, req, req.content, FALSE)
     ELSE Existing(s.files[req.path],
                   getFileAtCommit(s, req.path, req.base_commit))

----------------------------------------------------------------------------
(* The other single-request handlers of server.ts.                         *)

\* DELETE /vault/:v/file/*
deleteHandler(s, p) ==
  LET Deleted(d) ==
        [s |-> d.s,
         resp |-> [op |-> "delete", path |-> p,
                   status |-> IF d.deleted THEN 200 ELSE 404,
                   success |-> d.deleted,
                   commit |-> IF d.deleted THEN d.s.head ELSE 0]]
      Marked(md) == Deleted(deleteFile(IF md # 0 THEN softDeleteFile(s, md) ELSE s, p))
  IN Marked(getFileByPath(s, p))

\* GET /vault/:v/file/*
fileHandler(s, p) ==
  LET Found(record) ==
        [s |-> record.s,
         resp |-> [op |-> "file", path |-> p,
                   status |-> IF record.found THEN 200 ELSE 404,
                   content |-> getCurrentFile(s, p),
                   commit |-> record.commit, hash |-> record.hash]]
  IN Found(getFileRecord(s, p))

\* `git diff --name-only a b` for two commits: the paths whose blobs differ,
\* the manifest file included.  .gitignore is the same in every commit.  A
\* path that is gone in b is not listed when rename detection pairs it with
\* an added path: hidden is the set of the paths so paired.
DiffNames(s, a, b, hidden) ==
  LET Differs(f) == Blob(s.objects[a].tree, f) # Blob(s.objects[b].tree, f)
  IN (IF s.objects[a].manifest # s.objects[b].manifest THEN <<ManifestPath>> ELSE <<>>)
       \o SelectSeq(GitOrder, LAMBDA f : Differs(f) /\ f \notin hidden)

\* The paths rename detection may pair: gone in b, with an added path of
\* equal bytes.
RenamedAway(s, a, b) ==
  {f \in DOMAIN s.objects[a].tree \ DOMAIN s.objects[b].tree :
     \E g \in DOMAIN s.objects[b].tree \ DOMAIN s.objects[a].tree :
       s.objects[b].tree[g] = s.objects[a].tree[f]}

\* getChangesSince; sinceCommit 0 is null, a number beyond the object store
\* an unknown commit, for which `git diff` fails.
getChangesSince(s, sinceCommit, hidden) ==
  LET All(m) == [s |-> m.s, headCommit |-> s.head,
                 changedFiles |-> [i \in 1..Len(m.files) |-> m.files[i].path]]
  IN IF sinceCommit = 0 \/ sinceCommit = getHeadCommit(s)
     THEN [s |-> s, headCommit |-> s.head, changedFiles |-> <<>>]
     ELSE IF sinceCommit \in 1..Len(s.objects)
     THEN [s |-> s, headCommit |-> s.head,
           changedFiles |-> SelectSeq(DiffNames(s, sinceCommit, s.head, hidden),
                                      LAMBDA f : f # ".gitignore")]
     ELSE All(getManifest(s))

\* GET /vault/:v/status?since=
statusHandler(s, since, hidden) ==
  LET Changes(r) ==
        [s |-> r.s,
         resp |-> [op |-> "status", since |-> since, status |-> 200,
                   head_commit |-> r.headCommit, changed_files |-> r.changedFiles,
                   has_changes |-> Len(r.changedFiles) > 0]]
  IN Changes(getChangesSince(s, since, hidden))

\* GET /vault/:v/manifest
manifestHandler(s) ==
  LET Listed(m) ==
        [s |-> m.s,
         resp |-> [op |-> "manifest", status |-> 200, files |-> m.files,
                   head_commit |-> m.s.head]]
  IN Listed(getManifest(s))

\* POST /vault/:v/detect-rename; fileId = 0 when the body has no file_id.
detectHandler(s, missingPath, missingHash, fileId) ==
  LET Detected(r) ==
        [s |-> r.s,
         resp |-> [op |-> "detect", missing_path |-> missingPath,
                   missing_hash |-> missingHash, req_file_id |-> fileId,
                   status |-> 200, found |-> r.found, new_path |-> r.new_path,
                   file_id |-> r.file_id, detection_method |-> r.method]]
  IN Detected(detectRename(s, missingPath, missingHash, fileId))

\* POST /vault/:v/rename
renameHandler(s, fileId, oldPath, newPath, content, tick) ==
  LET Recorded(result, record) ==
        [s |-> record.s,
         resp |-> [op |-> "rename", status |-> 200, success |-> TRUE,
                   req_file_id |-> fileId, old_path |-> oldPath,
                   new_path |-> newPath, content |-> content,
                   commit |-> result.commit, file_id |-> record.file_id,
                   hash |-> record.hash, error |-> ""]]
      Renamed(result) ==
        IF ~result.success
        THEN [s |-> s,
              resp |-> [op |-> "rename", status |-> 400, success |-> FALSE,
                        req_file_id |-> fileId, old_path |-> oldPath,
                        new_path |-> newPath, content |-> content,
                        commit |-> 0, file_id |-> 0, hash |-> <<>>,
                        error |-> result.error]]
        ELSE Recorded(result, getFileRecord(result.s, newPath))
  IN Renamed(renameFile(s, fileId, oldPath, newPath,
                        IF Truthy(content) THEN content ELSE {}, tick))

----------------------------------------------------------------------------
(* V2 operations (sync-operations.ts).                                     *)
(* op = [type, path, file_id, old_path, content, base_commit]; content is  *)
(* {} when absent, file_id 0 and old_path "" when absent.                  *)

OpResult(op, index, success, fileId, commit, h, merged, conflicts, mergedContent, error) ==
  [index |-> index, op |-> op, success |-> success, file_id |-> fileId,
   commit |-> commit, hash |-> h, merged |-> merged, has_conflicts |-> conflicts,
   merged_content |-> mergedContent, error |-> error]

OpFailed(s, op, index, error) ==
  [s |-> s, result |-> OpResult(op, index, FALSE, 0, 0, <<>>, FALSE, FALSE, <<>>, error)]

\* commitFile then ensureFileId; processOperation catches a thrown error.
OpCommit(s, op, index, p, bytes, merged) ==
  LET Ensured(c, e) ==
        [s |-> e.s,
         result |-> OpResult(op, index, TRUE, e.id, c.commit, computeHash(bytes),
                             merged, FALSE, IF merged THEN bytes ELSE <<>>, "")]
      Committed(c) ==
        IF ~c.ok
        THEN OpFailed(c.s, op, index, "Git command failed: git commit")
        ELSE Ensured(c, ensureFileId(c.s, p, computeHash(bytes), c.commit))
  IN Committed(commitFile(s, p, bytes))

processCreate(s, op, index) ==
  IF ~Truthy(op.content)
  THEN OpFailed(s, op, index, "Content required for create operation")
  ELSE IF getCurrentFile(s, op.path) # {}
  THEN OpFailed(s, op, index, "File already exists")
  ELSE OpCommit(s, op, index, op.path, CHOOSE b \in op.content : TRUE, FALSE)

\* Case 2 of processModify: identical bytes, nothing is committed.
ModifyIdentical(s, op, index, p, client) ==
  LET Known(record) ==
        [s |-> record.s,
         result |-> OpResult(op, index, TRUE, op.file_id,
                             IF record.commit # 0 THEN record.commit ELSE s.head,
                             computeHash(client), FALSE, FALSE, <<>>, "")]
  IN Known(getFileRecord(s, p))

\* Case 3 of processModify: the three-way merge.
ModifyMerge(s, op, index, p, client, server, atBase) ==
  LET Conflicted(result, e) ==
        [s |-> e.s,
         result |-> OpResult(op, index, TRUE, e.id, s.head,
                             computeHash(result.merged), TRUE, TRUE,
                             result.merged, "")]
      Merged(result) ==
        IF result.hasConflicts
        THEN Conflicted(result,
                        ensureFileId(s, p, computeHash(result.merged), s.head))
        ELSE OpCommit(s, op, index, p, result.merged, TRUE)
  IN Merged(mergeFile(IF op.base_commit # 0 /\ atBase # {}
                      THEN CHOOSE b \in atBase : TRUE ELSE server,
                      client, server))

processModify(s, op, index) ==
  LET Existing(p, client, server) ==
        IF computeHash(client) = computeHash(server)
        THEN ModifyIdentical(s, op, index, p, client)
        ELSE ModifyMerge(s, op, index, p, client, server,
                         getFileAtCommit(s, p, op.base_commit))
      Found(p, client) ==
        IF op.base_commit # 0 /\ op.base_commit = s.head
        THEN OpCommit(s, op, index, p, client, FALSE)
        ELSE IF getCurrentFile(s, p) = {}
        THEN OpCommit(s, op, index, p, client, FALSE)
        ELSE Existing(p, client, s.files[p])
  IN IF ~Truthy(op.content)
     THEN OpFailed(s, op, index, "Content required for modify operation")
     ELSE IF op.file_id = 0
     THEN OpFailed(s, op, index, "file_id required for modify operation")
     ELSE IF getFileById(s, op.file_id) = 0 \/ s.recs[op.file_id].deleted
     THEN OpFailed(s, op, index, "File not found")
     ELSE Found(s.recs[op.file_id].path, CHOOSE b \in op.content : TRUE)

processRename(s, op, index, tick) ==
  LET Recorded(result, record) ==
        [s |-> record.s,
         result |-> OpResult(op, index, TRUE, record.file_id, result.commit,
                             record.hash, FALSE, FALSE, <<>>, "")]
      Renamed(result) ==
        IF ~result.success
        THEN OpFailed(s, op, index, result.error)
        ELSE Recorded(result, getFileRecord(result.s, op.path))
  IN IF op.file_id = 0
     THEN OpFailed(s, op, index, "file_id required for rename operation")
     ELSE IF op.old_path = ""
     THEN OpFailed(s, op, index, "old_path required for rename operation")
     ELSE Renamed(renameFile(s, op.file_id, op.old_path, op.path,
                             IF Truthy(op.content) THEN op.content ELSE {}, tick))

processDelete(s, op, index) ==
  LET Deleted(t, d) ==
        IF ~d.deleted
        THEN OpFailed(t, op, index, "Failed to delete file")
        ELSE [s |-> d.s,
              result |-> OpResult(op, index, TRUE, op.file_id, d.s.head, <<>>,
                                  FALSE, FALSE, <<>>, "")]
      Marked(t) == Deleted(t, deleteFile(t, s.recs[op.file_id].path))
  IN IF op.file_id = 0
     THEN OpFailed(s, op, index, "file_id required for delete operation")
     ELSE IF getFileById(s, op.file_id) = 0
     THEN OpFailed(s, op, index, "File not found")
     ELSE Marked(softDeleteFile(s, op.file_id))

processOperation(s, op, index, tick) ==
  IF op.type = "create" THEN processCreate(s, op, index)
  ELSE IF op.type = "modify" THEN processModify(s, op, index)
  ELSE IF op.type = "rename" THEN processRename(s, op, index, tick)
  ELSE IF op.type = "delete" THEN processDelete(s, op, index)
  ELSE OpFailed(s, op, index, "Unknown operation type")

\* POST /vault/:v/sync/v2: the loop over the operations.  Result indices are
\* the code's 0-based ones; operations[i] of the code is ops[i + 1].
RECURSIVE RunOperations(_, _, _, _, _, _, _)
RunOperations(s, ops, i, results, atomic, startCommit, tick) ==
  LET Pushed(r) ==
        IF ~r.result.success /\ atomic
        THEN [s |-> r.s,
              resp |-> [op |-> "v2", ops |-> ops, atomic |-> atomic,
                        status |-> 400, success |-> FALSE,
                        results |-> Append(results, r.result),
                        head_commit |-> startCommit]]
        ELSE RunOperations(r.s, ops, i + 1, Append(results, r.result),
                           atomic, startCommit, tick)
  IN IF i >= Len(ops)
     THEN [s |-> s,
           resp |-> [op |-> "v2", ops |-> ops, atomic |-> atomic, status |-> 200,
                     success |-> \A k \in 1..Len(results) : results[k].success,
                     results |-> results, head_commit |-> s.head]]
     ELSE Pushed(IF ops[i + 1].type = "" \/ ops[i + 1].path = ""
                 THEN OpFailed(s, ops[i + 1], i, "Operation requires type and path")
                 ELSE processOperation(s, ops[i + 1], i, tick))

\* Faulty variant of syncV2Handler: a failed operation never ends the batch.
syncV2NeverStops(s, ops, atomic, tick) ==
  LET Sent(r) == [s |-> r.s, resp |-> [r.resp EXCEPT !.atomic = atomic]]
  IN Sent(RunOperations(s, ops, 0, <<>>, FALSE, s.head, tick))

\* Faulty variant of syncV2Handler: the first failed operation ends every batch.
syncV2AlwaysStops(s, ops, atomic, tick) ==
  LET Sent(r) == [s |-> r.s, resp |-> [r.resp EXCEPT !.atomic = atomic]]
  IN Sent(RunOperations(s, ops, 0, <<>>, TRUE, s.head, tick))

syncV2Handler(s, ops, atomic, tick) ==
  RunOperations(s, ops, 0, <<>>, atomic, s.head, tick)

----------------------------------------------------------------------------
(* Vault names (db.ts).  A name is a string, modelled as the sequence of  *)
(* its characters.                                                         *)

Lower == {"a", "b", "c", "d", "e", "f", "g", "h", "i", "j", "k", "l", "m",
          "n", "o", "p", "q", "r", "s", "t", "u", "v", "w", "x", "y", "z"}
Upper == {"A", "B", "C", "D", "E", "F", "G", "H", "I", "J", "K", "L", "M",
          "N", "O", "P", "Q", "R", "S", "T", "U", "V", "W", "X", "Y", "Z"}
Digits == {"0", "1", "2", "3", "4", "5", "6", "7", "8", "9"}

\* VALID_VAULT_NAME.test(n), the regex /^[a-zA-Z0-9_\- ]+$/.
VALID_VAULT_NAME(n) ==
  /\ Len(n) >= 1
  /\ \A i \in 1..Len(n) : n[i] \in Lower \cup Upper \cup Digits \cup {"_", "-", " "}

\* String.prototype.includes for a non-empty sub.
includes(n, sub) ==
  \E i \in 1..(Len(n) - Len(sub) + 1) : SubSeq(n, i, i + Len(sub) - 1) = sub

MaxVaultNameLength == 100

\* Faulty variant of validateVaultName: every name passes.
validateAnyName(n) == TRUE

validateVaultName(n) ==
  IF Len(n) = 0 \/ Len(n) > MaxVaultNameLength THEN FALSE
  ELSE IF ~VALID_VAULT_NAME(n) THEN FALSE
  ELSE IF includes(n, <<".", ".">>) \/ includes(n, <<"/">>) \/ includes(n, <<"\\">>)
  THEN FALSE
  ELSE TRUE

\* The vault the stores belong to.
Vault == <<"v", "1">>
\* Another vault: a name of exactly the greatest accepted length.
LongestName == [i \in 1..MaxVaultNameLength |-> "a"]
\* Names that fail validation.
EmptyName == <<>>
LongName == [i \in 1..(MaxVaultNameLength + 1) |-> "a"]
DotsName == <<"a", ".", ".", "b">>
SlashName == <<"a", "/", "b">>
BackslashName == <<"a", "\\", "b">>
BangName == <<"a", "!">>
BadNames == {EmptyName, LongName, DotsName, SlashName, BackslashName, BangName}

\* CRDT updates: the state of a client that typed BaseText, and the state
\* of a client that then replaced the third line (the text TextB3).
UpdateA == {[id |-> 1, pos |-> 1, line |-> "L1"], [id |-> 2, pos |-> 2, line |-> "L2"],
            [id |-> 3, pos |-> 3, line |-> "L3"]}
UpdateB == UpdateA \cup {[id |-> 4, pos |-> 3, line |-> "L3b"]}

UNames == [names |-> {Vault} \cup BadNames,
           wsnames |-> {Vault, LongestName} \cup BadNames,
           devs |-> {"d2"},
           paths |-> {"a.md"}, rpaths |-> {<<"a.md", "b.md">>},
           texts |-> {BaseText}, updates |-> {UpdateB},
           maxc |-> MaxNamesCommits]

\* A second vault.
OtherVault == <<"v", "2">>

ULive == [others |-> {"d2"},
          batches |-> {<<"a.md", "b.md">>, <<"a.md", "a.md">>, <<"b.md", "a.md">>},
          paths |-> {"a.md"}, rpaths |-> {<<"a.md", "b.md">>},
          texts |-> {BaseText}, updates |-> {UpdateA, UpdateB},
          maxc |-> MaxLiveCommits]

----------------------------------------------------------------------------
(* CRDT store (yjs-store.ts) and real-time updates (yjs-sync.ts).  A Yjs   *)
(* document is the set of the items it has integrated and an update is a   *)
(* set of items; integrating is set union.  An item [id, pos, line] puts   *)
(* a line at position pos, replacing the items of smaller id there.        *)

\* getYjsDocument: the stored state, null (a new Y.Doc) being the empty set.
getYjsDocument(d, fileId) == IF fileId \in DOMAIN d THEN d[fileId] ELSE {}

\* doc.getText('content').toString()
DocText(doc) ==
  LET At(p) == {it \in doc : it.pos = p}
      Line(p, id) == (CHOOSE it \in At(p) : it.id = id).line
  IN IF doc = {} THEN <<>>
     ELSE [p \in 1..Max({it.pos : it \in doc}) |->
             IF At(p) = {} THEN "" ELSE Line(p, Max({it.id : it \in At(p)}))]

\* applyYjsUpdate: Y.applyUpdate on the stored document, INSERT OR REPLACE.
applyYjsUpdate(d, fileId, update) ==
  [f \in DOMAIN d \cup {fileId} |->
     IF f = fileId THEN getYjsDocument(d, fileId) \cup update ELSE d[f]]

\* handleYjsUpdate: the document is persisted first, then the text is
\* committed at the current_path of the row; a throw of commitFile is caught.
handleYjsUpdate(s, d, fileId, update) ==
  LET Stored(nd) ==
        LET Committed(c) ==
              IF c.ok
              THEN [s |-> c.s, docs |-> nd, success |-> TRUE, error |-> ""]
              ELSE [s |-> c.s, docs |-> nd, success |-> FALSE, error |-> "Git command failed"]
        IN IF getFileById(s, fileId) = 0
           THEN [s |-> s, docs |-> nd, success |-> FALSE,
                 error |-> "File metadata not found"]
           ELSE Committed(commitFile(s, s.recs[fileId].path, DocText(nd[fileId])))
  IN Stored(applyYjsUpdate(d, fileId, update))

----------------------------------------------------------------------------
(* Channel table (websocket.ts).                                           *)

\* Milliseconds between two runs of the heartbeat, and the age of lastSeen
\* beyond which the heartbeat closes a channel.
HEARTBEAT_INTERVAL == 30000
CLIENT_TIMEOUT == 60000

\* The readyState of a socket of the ws library; the code tests it against
\* 1, which is OPEN.
OPEN == "OPEN"
CLOSING == "CLOSING"
CLOSED == "CLOSED"

\* A socket as the manager holds it: vaultName and deviceId are the values
\* its 'close' and 'error' listeners were registered with, received counts
\* its inbound frames and sent lists the update frames written to it.
NewSocket(vaultName, deviceId) ==
  [readyState |-> OPEN, vaultName |-> vaultName, deviceId |-> deviceId,
   received |-> 0, sent |-> <<>>]

\* The channel table and the sockets as one value.
Chan == [clients |-> clients, sockets |-> sockets]

\* this.clients.get(vaultName) || []
getVaultClients(c, n) == IF n \in DOMAIN c THEN c[n] ELSE <<>>

\* vaultClients.findIndex(c => c.deviceId === deviceId), counted from 1;
\* 0 stands for -1.
findIndex(vaultClients, deviceId) ==
  IF \A i \in 1..Len(vaultClients) : vaultClients[i].deviceId # deviceId THEN 0
  ELSE Min({i \in 1..Len(vaultClients) : vaultClients[i].deviceId = deviceId})

\* vaultClients.splice(index, 1)
splice(vaultClients, index) ==
  SubSeq(vaultClients, 1, index - 1) \o SubSeq(vaultClients, index + 1, Len(vaultClients))

\* this.clients.set(vaultName, vaultClients)
setClients(c, n, vaultClients) ==
  [m \in DOMAIN c \cup {n} |-> IF m = n THEN vaultClients ELSE c[m]]

\* this.clients.delete(vaultName)
deleteClients(c, n) == [m \in DOMAIN c \ {n} |-> c[m]]

\* socket.close(): an OPEN socket starts the closing handshake; its 'close'
\* event is emitted later.
socketClose(sk, socket) ==
  [k \in DOMAIN sk |->
     IF k = socket /\ sk[k].readyState = OPEN
     THEN [sk[k] EXCEPT !.readyState = CLOSING] ELSE sk[k]]

\* handleConnection: the entry of the same device, if any, has its socket
\* closed and is taken out; the new client is pushed with lastSeen = now.
handleConnection(w, socket, vaultName, deviceId, t) ==
  LET client == [deviceId |-> deviceId, vaultName |-> vaultName, socket |-> socket,
                 lastSeen |-> t]
      Listening(sk) ==
        [k \in DOMAIN sk \cup {socket} |->
           IF k = socket THEN NewSocket(vaultName, deviceId) ELSE sk[k]]
      Replace(vaultClients, existingIndex) ==
        IF existingIndex = 0
        THEN [clients |-> setClients(w.clients, vaultName, Append(vaultClients, client)),
              sockets |-> Listening(w.sockets)]
        ELSE [clients |-> setClients(w.clients, vaultName,
                                     Append(splice(vaultClients, existingIndex), client)),
              sockets |-> Listening(socketClose(w.sockets,
                                                vaultClients[existingIndex].socket))]
      Found(vaultClients) == Replace(vaultClients, findIndex(vaultClients, deviceId))
  IN Found(getVaultClients(w.clients, vaultName))

\* handleDisconnect: the entry found by deviceId is removed, whatever its
\* socket; the key of a vault left without entries is deleted.
handleDisconnect(c, vaultName, deviceId) ==
  LET Removed(vaultClients) ==
        IF vaultClients = <<>> THEN deleteClients(c, vaultName)
        ELSE setClients(c, vaultName, vaultClients)
      At(vaultClients, index) ==
        IF index = 0 THEN c ELSE Removed(splice(vaultClients, index))
  IN IF vaultName \notin DOMAIN c THEN c
     ELSE At(c[vaultName], findIndex(c[vaultName], deviceId))

\* The sockets broadcast calls send on: those of the entries of the vault,
\* but for the excluded device, whose readyState is OPEN.
Targets(w, vaultName, excludeDeviceId) ==
  LET vaultClients == getVaultClients(w.clients, vaultName)
  IN {vaultClients[i].socket :
        i \in {j \in 1..Len(vaultClients) :
                 /\ vaultClients[j].deviceId # excludeDeviceId
                 /\ w.sockets[vaultClients[j].socket].readyState = OPEN}}

\* socket.send(frame) on every socket of `to`; the sends on the sockets of
\* `fails` throw.
send(sk, to, frame, fails) ==
  [k \in DOMAIN sk |->
     IF k \in to \ fails THEN [sk[k] EXCEPT !.sent = Append(@, frame)] ELSE sk[k]]

\* broadcast: a throw of send is caught and logged, nothing else.
broadcast(w, vaultName, frame, excludeDeviceId, fails) ==
  LET Sent(to) ==
        [sockets |-> send(w.sockets, to, frame, fails),
         targets |-> to, failed |-> to \cap fails]
  IN Sent(Targets(w, vaultName, excludeDeviceId))

----------------------------------------------------------------------------
(* Requests.  U is the universe the inputs are drawn from; a request is    *)
(* accepted only while the object store stays within U.maxc commits.       *)

Idle == [op |-> "idle"]

\* The handlers are synchronous (execSync, better-sqlite3): the event loop
\* runs one to completion, and its reply is sent, before the next starts.
Reply(U, r) ==
  /\ last = Idle
  /\ Len(r.s.objects) <= U.maxc
  /\ Install(r.s)
  /\ last' = r.resp
  /\ UNCHANGED live

\* The reply leaves the server.
Respond ==
  /\ last # Idle
  /\ last' = Idle
  /\ UNCHANGED <<stores, live>>

\* base_commit values: absent (0), every commit object, one unknown hash.
CommitIds == 0..(Len(objects) + 1)
\* file_id values: every row of the table and one unknown uuid.
FileIds == 1..(Len(recs) + 1)

NewOp(type, p, fileId, oldPath, content, base) ==
  [type |-> type, path |-> p, file_id |-> fileId, old_path |-> oldPath,
   content |-> content, base_commit |-> base]

Sync(U) ==
  \E p \in U.paths, c \in U.texts, b \in CommitIds :
    Reply(U, syncHandler(Cur, [path |-> p, content |-> c, base_commit |-> b]))

V2Create(U) ==
  \E p \in U.paths, c \in U.texts, atomic \in U.atomics :
    Reply(U, syncV2Handler(Cur, <<NewOp("create", p, 0, "", {c}, 0)>>, atomic, FALSE))

\* processModify and processDelete never read op.path: it is fixed.
V2Modify(U) ==
  \E f \in FileIds, c \in U.texts, b \in CommitIds, atomic \in U.atomics :
    Reply(U, syncV2Handler(Cur, <<NewOp("modify", PathOrder[1], f, "", {c}, b)>>,
                           atomic, FALSE))

V2Rename(U) ==
  \E f \in FileIds, old \in U.rpaths, new \in U.rpaths, c \in U.contents,
     atomic \in U.atomics, tick \in U.ticks :
    Reply(U, syncV2Handler(Cur, <<NewOp("rename", new, f, old, c, 0)>>, atomic, tick))

V2Delete(U) ==
  \E f \in FileIds, atomic \in U.atomics :
    Reply(U, syncV2Handler(Cur, <<NewOp("delete", PathOrder[1], f, "", {}, 0)>>,
                           atomic, FALSE))

Rename(U) ==
  \E f \in FileIds, old \in U.rpaths, new \in U.rpaths, c \in U.contents,
     tick \in U.ticks :
    Reply(U, renameHandler(Cur, f, old, new, c, tick))

Delete(U) ==
  \E p \in U.rpaths : Reply(U, deleteHandler(Cur, p))

GetFile(U) ==
  \E p \in U.rpaths : Reply(U, fileHandler(Cur, p))

GetManifest(U) == Reply(U, manifestHandler(Cur))

DetectRename(U) ==
  \E p \in U.rpaths, c \in U.texts, f \in 0..Len(recs) :
    Reply(U, detectHandler(Cur, p, computeHash(c), f))

Status(U) ==
  \E since \in CommitIds :
    \E hidden \in SUBSET (IF since \in 1..Len(objects)
                           THEN RenamedAway(Cur, since, head) ELSE {}) :
      Reply(U, statusHandler(Cur, since, hidden))

\* The operations a batch is made of.  file_id 0 is an absent file_id, the
\* others are the rows the table holds when the batch arrives.
BatchOps(U) ==
  {NewOp("create", p, 0, "", {c}, 0) : p \in U.paths, c \in U.creates}
    \cup {NewOp("modify", PathOrder[1], f, "", {c}, 0) :
             f \in 0..Len(recs), c \in U.edits}
    \cup {NewOp("delete", PathOrder[1], f, "", {}, 0) : f \in 0..Len(recs)}
    \cup {NewOp("rename", r[2], f, r[1], {}, 0) :
             f \in 1..Len(recs), r \in U.renames}
    \cup {NewOp("", PathOrder[1], 0, "", {}, 0)}

\* POST /vault/:v/sync/v2 with one to MaxBatchLen operations.
V2Batch(U) ==
  \E n \in 1..MaxBatchLen :
    \E ops \in [1..n -> BatchOps(U)], atomic \in U.atomics, tick \in U.ticks :
      Reply(U, syncV2Handler(Cur, ops, atomic, tick))

----------------------------------------------------------------------------
(* Routes (server.ts).  Every route starts with the vault-name check.      *)

\* A request or message as the server receives it; ops[1] carries the
\* parameters of the single-operation endpoints.
NewReq(kind, vault, dev, ops, atomic, tick, update) ==
  [kind |-> kind, vault |-> vault, dev |-> dev, ops |-> ops, atomic |-> atomic,
   tick |-> tick, update |-> update]

ReqSync(n, p, c, b) ==
  NewReq("sync", n, "", <<NewOp("", p, 0, "", {c}, b)>>, FALSE, FALSE, {})
ReqV2(n, ops, atomic) == NewReq("v2", n, "", ops, atomic, TRUE, {})
ReqRename(n, f, old, new) ==
  NewReq("rename", n, "", <<NewOp("", new, f, old, {}, 0)>>, FALSE, TRUE, {})
ReqDelete(n, p) == NewReq("delete", n, "", <<NewOp("", p, 0, "", {}, 0)>>, FALSE, FALSE, {})
ReqFile(n, p) == NewReq("file", n, "", <<NewOp("", p, 0, "", {}, 0)>>, FALSE, FALSE, {})
ReqManifest(n) == NewReq("manifest", n, "", <<NewOp("", "", 0, "", {}, 0)>>, FALSE, FALSE, {})
ReqDetect(n, p, c, f) ==
  NewReq("detect", n, "", <<NewOp("", p, f, "", {c}, 0)>>, FALSE, FALSE, {})
ReqWs(n, d) == NewReq("ws", n, d, <<>>, FALSE, FALSE, {})
ReqYjs(n, d, f, u) ==
  NewReq("yjs", n, d, <<NewOp("", "", f, "", {}, 0)>>, FALSE, FALSE, u)

\* The handler bodies behind the check.
Route(s, req) ==
  LET Body(op) ==
        IF req.kind = "sync"
        THEN syncHandler(s, [path |-> op.path, content |-> CHOOSE b \in op.content : TRUE,
                             base_commit |-> op.base_commit])
        ELSE IF req.kind = "rename"
        THEN renameHandler(s, op.file_id, op.old_path, op.path, op.content, req.tick)
        ELSE IF req.kind = "delete" THEN deleteHandler(s, op.path)
        ELSE IF req.kind = "file" THEN fileHandler(s, op.path)
        ELSE IF req.kind = "detect"
        THEN detectHandler(s, op.path, computeHash(CHOOSE b \in op.content : TRUE),
                           op.file_id)
        ELSE manifestHandler(s)
  IN IF req.kind = "v2" THEN syncV2Handler(s, req.ops, req.atomic, req.tick)
     ELSE Body(req.ops[1])

\* An HTTP route: `if (!validateVaultName(vaultName)) return reply.status(400)`.
Served(s, req) ==
  LET Sent(r) ==
        [s |-> r.s,
         resp |-> [op |-> "http", req |-> req, status |-> r.resp.status, body |-> r.resp]]
  IN IF ~validateVaultName(req.vault)
     THEN [s |-> s,
           resp |-> [op |-> "http", req |-> req, status |-> 400,
                     body |-> [error |-> "Invalid vault name"]]]
     ELSE Sent(Route(s, req))

\* The routes that call initVaultGit(vaultName) after the check.
InitKinds == {"manifest", "sync", "v2", "ws"}

\* initVaultGit: fse.ensureDirSync(vaultPath).
EnsureDir(dr, req) ==
  IF validateVaultName(req.vault) /\ req.kind \in InitKinds
  THEN dr \cup {req.vault} ELSE dr

\* GET /vault/:v/ws: close code 1008 for a bad name, else the socket is
\* handed to the manager (101 is the accepted upgrade).
wsHandler(w, socket, req, t) ==
  IF ~validateVaultName(req.vault)
  THEN [w |-> w, resp |-> [op |-> "ws", req |-> req, status |-> 1008]]
  ELSE [w |-> handleConnection(w, socket, req.vault, req.dev, t),
        resp |-> [op |-> "ws", req |-> req, status |-> 101]]

\* An inbound frame as JSON.parse returns it: fileId 0 and payload {} are
\* the absent fields.
NewMessage(type, deviceId, fileId, payload) ==
  [type |-> type, deviceId |-> deviceId, fileId |-> fileId, payload |-> payload]

\* The frame relayed for the n-th inbound frame of the socket `from`.
NewFrame(type, from, n) == [type |-> type, from |-> from, n |-> n]

\* The handler of an update, suspended at its await or about to run: the
\* client object it holds and the message.
NewTask(module, sk, socket, message) ==
  [module |-> module, socket |-> socket, vaultName |-> sk[socket].vaultName,
   deviceId |-> sk[socket].deviceId, message |-> message, n |-> sk[socket].received]

\* sendToClient: send is called on an OPEN socket only; a throw is caught
\* and logged, nothing else.
sendToClient(sk, socket, fails) ==
  [called |-> sk[socket].readyState = OPEN,
   failed |-> sk[socket].readyState = OPEN /\ socket \in fails]

\* What one update handler did.
Handled(task, success, error, targets, failed) ==
  [task |-> task, success |-> success, error |-> error,
   targets |-> targets, failed |-> failed]

\* handleStructureUpdate: structure.applyUpdate (Y.applyUpdate, saveToDb),
\* then the broadcast; row 0 of docs is the structure_crdt row of the vault.
handleStructureUpdate(s, d, w, task, fails) ==
  LET Relayed(b) ==
        [s |-> s, docs |-> applyYjsUpdate(d, 0, task.message.payload),
         sockets |-> b.sockets,
         handled |-> Handled(task, TRUE, "", b.targets, b.failed)]
  IN Relayed(broadcast(w, task.vaultName,
                       NewFrame("structure-update", task.socket, task.n),
                       task.deviceId, fails))

\* handleYjsUpdateAsync after its await: handleYjsUpdate, whose last step
\* on success is the broadcast; on failure an error frame goes to the sender.
yjsUpdateTask(s, d, w, task, fails) ==
  LET Relayed(r, b) ==
        [s |-> r.s, docs |-> r.docs, sockets |-> b.sockets,
         handled |-> Handled(task, TRUE, "", b.targets, b.failed)]
      Failed(r, e) ==
        [s |-> r.s, docs |-> r.docs, sockets |-> w.sockets,
         handled |-> Handled(task, FALSE, r.error, {},
                             IF e.failed THEN {task.socket} ELSE {})]
      Done(r) ==
        IF r.success
        THEN Relayed(r, broadcast(w, task.vaultName,
                                  NewFrame("yjs-update", task.socket, task.n),
                                  task.deviceId, fails))
        ELSE Failed(r, sendToClient(w.sockets, task.socket, fails))
  IN Done(handleYjsUpdate(s, d, task.message.fileId, task.message.payload))

\* The part of an update handler that follows its await.
RunTask(s, d, w, task, fails) ==
  IF task.module = "yjs" THEN yjsUpdateTask(s, d, w, task, fails)
  ELSE handleStructureUpdate(s, d, w, task, fails)

\* The handlers of ts resume one after the other, in the order in which
\* they were suspended.
RECURSIVE RunTasks(_, _, _, _, _, _)
RunTasks(s, d, w, ts, handled, fails) ==
  LET Rest(r) ==
        RunTasks(r.s, r.docs, [w EXCEPT !.sockets = r.sockets], Tail(ts),
                 Append(handled, r.handled), fails)
  IN IF ts = <<>>
     THEN [s |-> s, docs |-> d, sockets |-> w.sockets, handled |-> handled]
     ELSE Rest(RunTask(s, d, w, Head(ts), fails))

\* client.lastSeen = Date.now(), client being the object the 'message'
\* listener of the socket holds: it shows in the table while it is there.
\* The frame is counted on its socket.
touch(w, socket, t) ==
  [clients |-> [m \in DOMAIN w.clients |->
                  [i \in 1..Len(w.clients[m]) |->
                     IF w.clients[m][i].socket = socket
                     THEN [w.clients[m][i] EXCEPT !.lastSeen = t]
                     ELSE w.clients[m][i]]],
   sockets |-> [w.sockets EXCEPT ![socket].received = @ + 1]]

\* The module an update of this type is handled by, "" for the other types.
ModuleOf(type) ==
  IF type = "yjs-update" THEN "yjs"
  ELSE IF type = "structure-update" THEN "structure" ELSE ""

\* handleMessage: lastSeen is refreshed by every frame; a message without
\* type or deviceId is dropped; ping is answered with pong; binary-update is
\* broadcast at once; yjs-update (with fileId and payload) and
\* structure-update (with payload) start their async handler, which runs on
\* at once when its module is loaded and is suspended otherwise; the other
\* types are logged.
handleMessage(s, d, w, md, tk, socket, message, t, fails) ==
  LET Out(ns, nd, sk, ntk, handled, pong) ==
        [s |-> ns, docs |-> nd, clients |-> touch(w, socket, t).clients, sockets |-> sk,
         tasks |-> ntk,
         resp |-> [op |-> "message", socket |-> socket, message |-> message,
                   handled |-> handled, pong |-> pong]]
      Quiet(v) == Out(s, d, v.sockets, tk, <<>>, FALSE)
      Ran(r) == Out(r.s, r.docs, r.sockets, tk, <<r.handled>>, FALSE)
      Binary(v, task, b) ==
        Out(s, d, b.sockets, tk, <<Handled(task, TRUE, "", b.targets, b.failed)>>, FALSE)
      Update(v, task) ==
        IF task.module \in md THEN Ran(RunTask(s, d, v, task, fails))
        ELSE Out(s, d, v.sockets, Append(tk, task), <<>>, FALSE)
      Switch(v) ==
        IF message.type = "" \/ message.deviceId = "" THEN Quiet(v)
        ELSE IF message.type = "ping"
        THEN Out(s, d, v.sockets, tk, <<>>, sendToClient(v.sockets, socket, fails).called)
        ELSE IF message.type = "yjs-update"
        THEN IF message.fileId # 0 /\ message.payload # {}
             THEN Update(v, NewTask("yjs", v.sockets, socket, message))
             ELSE Quiet(v)
        ELSE IF message.type = "structure-update"
        THEN IF message.payload # {}
             THEN Update(v, NewTask("structure", v.sockets, socket, message))
             ELSE Quiet(v)
        ELSE IF message.type = "binary-update"
        THEN Binary(v, NewTask("", v.sockets, socket, message),
                    broadcast(v, v.sockets[socket].vaultName,
                              NewFrame("binary-update", socket, v.sockets[socket].received),
                              v.sockets[socket].deviceId, fails))
        ELSE Quiet(v)
  IN Switch(touch(w, socket, t))

\* The socket of the entry of deviceId in the table of vault n.
SocketOf(c, n, deviceId) ==
  getVaultClients(c, n)[findIndex(getVaultClients(c, n), deviceId)].socket

\* handleYjsUpdateAsync for the yjs-update req of a connected device, its
\* await included: the update is applied, on success it is broadcast to the
\* other devices of the vault, on failure an error goes to the sender.
yjsHandler(s, d, w, req) ==
  LET Devs(to) ==
        LET vaultClients == getVaultClients(w.clients, req.vault)
        IN [i \in 1..Len(SelectSeq(vaultClients, LAMBDA e : e.socket \in to)) |->
              SelectSeq(vaultClients, LAMBDA e : e.socket \in to)[i].deviceId]
      Done(r) ==
        [s |-> r.s, docs |-> r.docs, sockets |-> r.sockets,
         resp |-> [op |-> "yjs", req |-> req, success |-> r.handled.success,
                   error |-> r.handled.error, broadcast |-> Devs(r.handled.targets)]]
      On(socket) ==
        Done(yjsUpdateTask(s, d, w,
                           NewTask("yjs", w.sockets, socket,
                                   NewMessage("yjs-update", req.dev,
                                              req.ops[1].file_id, req.update)),
                           {}))
  IN On(SocketOf(w.clients, req.vault, req.dev))

\* The devices that have an entry in the table of vault n.
Connected(n) ==
  {getVaultClients(clients, n)[i].deviceId : i \in 1..Len(getVaultClients(clients, n))}

\* An HTTP request is answered.
HttpReply(U, req, r) ==
  /\ last = Idle
  /\ Len(r.s.objects) <= U.maxc
  /\ Install(r.s)
  /\ last' = r.resp
  /\ dirs' = EnsureDir(dirs, req)
  /\ UNCHANGED <<docs, clients, pending, sockets, timers, loader>>

NamesRequests(U) ==
  UNION {{ReqSync(n, p, c, 0) : p \in U.paths, c \in U.texts}
           \cup {ReqV2(n, <<NewOp("create", p, 0, "", {c}, 0)>>, TRUE) :
                    p \in U.paths, c \in U.texts}
           \cup {ReqRename(n, f, r[1], r[2]) : f \in 1..Len(recs), r \in U.rpaths}
           \cup {ReqDelete(n, p) : p \in U.paths}
           \cup {ReqFile(n, p) : p \in U.paths}
           \cup {ReqDetect(n, p, c, 0) : p \in U.paths, c \in U.texts}
           \cup {ReqManifest(n)} : n \in U.names}

HttpRequest(U) ==
  \E req \in NamesRequests(U) : HttpReply(U, req, Served(Cur, req))

\* The socket of the next connection.
NextSocket == Len(sockets) + 1

WsReply(req, r) ==
  /\ validateVaultName(req.vault) => NextSocket <= MaxSockets
  /\ clients' = r.w.clients
  /\ sockets' = r.w.sockets
  /\ dirs' = EnsureDir(dirs, req)
  /\ last' = r.resp

WsConnect(U) ==
  \E n \in U.wsnames, d \in U.devs :
    /\ last = Idle
    /\ WsReply(ReqWs(n, d), wsHandler(Chan, NextSocket, ReqWs(n, d), now))
    /\ UNCHANGED <<stores, docs, pending, timers, loader>>

\* The handler has run, so its module is loaded.
YjsReply(U, r) ==
  /\ Len(r.s.objects) <= U.maxc
  /\ Install(r.s)
  /\ docs' = r.docs
  /\ sockets' = r.sockets
  /\ modules' = modules \cup {"yjs"}
  /\ last' = r.resp

\* A yjs-update message arrives on the socket of a connected device.
YjsUpdate(U) ==
  \E d \in Connected(Vault), f \in FileIds, u \in U.updates :
    /\ last = Idle
    /\ YjsReply(U, yjsHandler(Cur, docs, Chan, ReqYjs(Vault, d, f, u)))
    /\ UNCHANGED <<dirs, clients, pending, timers, tasks>>

----------------------------------------------------------------------------
(* Requests in flight.  Node runs a handler from one suspension point to   *)
(* the next without interruption; what is received waits in `pending`.     *)

Devices == {"d1", "d2"}
NoJob == [kind |-> "none"]
NewJob(req) == [kind |-> "job", req |-> req, pos |-> 0, results |-> <<>>, start |-> 0]

\* Faulty variant of TurnEnd: the loop yields after every operation.
TurnEndNextOp(ops, pos) == pos + 1

\* The index at which the sync/v2 loop, entered at index pos, next yields to
\* the event loop: the loop holds no await, it runs to the end of the batch.
TurnEnd(ops, pos) == Len(ops)

\* One turn of a sync/v2 request.
V2Turn(s, job) ==
  LET Ran(e, start, r) ==
        IF e >= Len(job.req.ops) \/ r.resp.status = 400
        THEN [s |-> r.s, done |-> TRUE, job |-> job,
              resp |-> [op |-> "http", req |-> job.req, status |-> r.resp.status,
                        body |-> [r.resp EXCEPT !.ops = job.req.ops]]]
        ELSE [s |-> r.s, done |-> FALSE, resp |-> Idle,
              job |-> [job EXCEPT !.pos = e, !.results = r.resp.results,
                                  !.start = start]]
      Run(e, start) ==
        Ran(e, start, RunOperations(s, SubSeq(job.req.ops, 1, e), job.pos, job.results,
                                    job.req.atomic, start, job.req.tick))
  IN Run(TurnEnd(job.req.ops, job.pos),
         IF job.pos = 0 THEN getHeadCommit(s) ELSE job.start)

\* One turn of an HTTP request.
RunTurn(s, job) ==
  LET Whole(r) == [s |-> r.s, done |-> TRUE, job |-> job, resp |-> r.resp]
  IN IF job.req.kind = "v2" /\ validateVaultName(job.req.vault)
     THEN V2Turn(s, job)
     ELSE Whole(Served(s, job.req))

HttpKinds == {"sync", "v2", "rename", "delete", "file", "detect", "manifest"}

\* What device d may send: batches from every device, the other writes and
\* the socket from the devices of U.others.
LiveRequests(U, d) ==
  {ReqV2(Vault, <<NewOp("create", b[1], 0, "", {c}, 0),
                  NewOp("create", b[2], 0, "", {c}, 0)>>, TRUE) :
     b \in U.batches, c \in U.texts}
    \cup (IF d \notin U.others THEN {}
          ELSE {ReqSync(Vault, p, c, 0) : p \in U.paths, c \in U.texts}
                 \cup {ReqRename(Vault, f, r[1], r[2]) : f \in 1..Len(recs), r \in U.rpaths}
                 \cup {ReqDelete(Vault, p) : p \in U.paths}
                 \cup (IF NextSocket > MaxSockets THEN {} ELSE {ReqWs(Vault, d)})
                 \cup (IF d \notin Connected(Vault) THEN {}
                       ELSE {ReqYjs(Vault, d, f, u) : f \in 1..Len(recs), u \in U.updates}))

\* The server receives a request or message.
Arrive(U) ==
  \E d \in Devices :
    /\ pending[d] = NoJob
    /\ \E req \in LiveRequests(U, d) : pending' = [pending EXCEPT ![d] = NewJob(req)]
    /\ UNCHANGED <<stores, last, dirs, docs, clients, sockets, timers, loader>>

HttpTurnOf(U, d, t) ==
  /\ Len(t.s.objects) <= U.maxc
  /\ Install(t.s)
  /\ pending' = [pending EXCEPT ![d] = IF t.done THEN NoJob ELSE t.job]
  /\ last' = IF t.done THEN t.resp ELSE last
  /\ dirs' = EnsureDir(dirs, pending[d].req)
  /\ UNCHANGED <<docs, clients, sockets, timers, loader>>

HttpTurn(U) ==
  \E d \in Devices :
    /\ pending[d] # NoJob
    /\ pending[d].req.kind \in HttpKinds
    /\ HttpTurnOf(U, d, RunTurn(Cur, pending[d]))

WsTurn(U) ==
  \E d \in Devices :
    /\ pending[d] # NoJob
    /\ pending[d].req.kind = "ws"
    /\ WsReply(pending[d].req, wsHandler(Chan, NextSocket, pending[d].req, now))
    /\ pending' = [pending EXCEPT ![d] = NoJob]
    /\ UNCHANGED <<stores, docs, timers, loader>>

YjsTurn(U) ==
  \E d \in Devices :
    /\ pending[d] # NoJob
    /\ pending[d].req.kind = "yjs"
    /\ YjsReply(U, yjsHandler(Cur, docs, Chan, pending[d].req))
    /\ pending' = [pending EXCEPT ![d] = NoJob]
    /\ UNCHANGED <<dirs, clients, timers, tasks>>

Init ==
  /\ dirs = {Vault}
  /\ docs = <<>>
  /\ clients = <<>>
  /\ pending = [d \in Devices |-> NoJob]
  /\ sockets = <<>>
  /\ now = 0
  /\ heartbeat = HEARTBEAT_INTERVAL
  /\ modules = {}
  /\ tasks = <<>>
  /\ files = initVaultGit.files
  /\ objects = initVaultGit.objects
  /\ head = initVaultGit.head
  /\ recs = initVaultGit.recs
  /\ hist = initVaultGit.hist
  /\ mfile = initVaultGit.mfile
  /\ last = Idle

NextIn(U) ==
  \/ Sync(U)
  \/ V2Create(U)
  \/ V2Modify(U)
  \/ V2Rename(U)
  \/ V2Delete(U)
  \/ Rename(U)
  \/ Delete(U)
  \/ GetFile(U)
  \/ GetManifest(U)
  \/ DetectRename(U)
  \/ Respond

Next == NextIn(UId)
NextMerge == NextIn(UMerge)

\* Identity-centred specification.
Spec == Init /\ [][Next]_vars

\* Merge-centred specification.
SpecMerge == Init /\ [][NextMerge]_vars

NextDeep == NextIn(UDeep)

NextBatch ==
  \/ V2Batch(UBatch)
  \/ Respond

\* Batch specification.
SpecBatch == Init /\ [][NextBatch]_vars

\* Specification of long identity histories.
SpecDeep == Init /\ [][NextDeep]_vars

NextReserved ==
  \/ NextIn(UReserved)
  \/ Status(UReserved)

\* Specification of the reserved paths: a path under .scion/ among the
\* paths clients name, and the status query.
SpecReserved == Init /\ [][NextReserved]_vars

NextNames ==
  \/ HttpRequest(UNames)
  \/ WsConnect(UNames)
  \/ YjsUpdate(UNames)
  \/ Respond

\* Specification of the vault-name check: one request at a time, names of
\* every kind.
SpecNames == Init /\ [][NextNames]_vars

----------------------------------------------------------------------------
(* Sockets and timers.                                                     *)

\* Universe of the channel specification: two devices on two vaults, one
\* file, frames of every type; updates travel on the first vault.
UChannels == [wsnames |-> {Vault, OtherVault},
              devs |-> {"d1", "d2"},
              paths |-> {"a.md"}, texts |-> {BaseText},
              relays |-> {NewMessage("binary-update", "d", 0, {})},
              updates |-> {NewMessage("yjs-update", "d", 1, UpdateB),
                           NewMessage("structure-update", "d", 0, UpdateA)},
              others |-> {NewMessage("ping", "d", 0, {}),
                          NewMessage("yjs-update", "d", 0, UpdateB),
                          NewMessage("binary-update", "", 0, {})},
              maxc |-> MaxChannelsCommits]

\* Universe of the heartbeat specification: the frames are pings.
UBeat == [wsnames |-> {Vault},
          devs |-> {"d1", "d2"},
          relays |-> {},
          updates |-> {},
          others |-> {NewMessage("ping", "d", 0, {})},
          maxc |-> MaxChannelsCommits]

\* The sends that throw in one turn: none, or those on one socket.
Fails == {{}} \cup {{k} : k \in DOMAIN sockets}

\* A /sync upload while channels are open.
Upload(U) ==
  \E p \in U.paths, c \in U.texts :
    Reply(U, syncHandler(Cur, [path |-> p, content |-> c, base_commit |-> 0]))

\* A frame arrives on an OPEN socket: its 'message' listener runs.
MessageReply(U, r) ==
  /\ Len(r.s.objects) <= U.maxc
  /\ Install(r.s)
  /\ docs' = r.docs
  /\ clients' = r.clients
  /\ sockets' = r.sockets
  /\ tasks' = r.tasks
  /\ last' = r.resp
  /\ UNCHANGED <<dirs, pending, timers, modules>>

Message(U) ==
  \E k \in DOMAIN sockets, fails \in Fails :
    \E m \in U.relays \cup U.others
               \cup (IF sockets[k].vaultName = Vault THEN U.updates ELSE {}) :
      /\ last = Idle
      /\ sockets[k].readyState = OPEN
      /\ sockets[k].received < MaxFrames
      /\ MessageReply(U, handleMessage(Cur, docs, Chan, modules, tasks, k, m, now, fails))

\* getYjsSync, getStructureSync: the import of module m completes; the
\* handlers that await it resume in the order in which they were suspended.
LoadedReply(U, m, r) ==
  /\ Len(r.s.objects) <= U.maxc
  /\ Install(r.s)
  /\ docs' = r.docs
  /\ sockets' = r.sockets
  /\ modules' = modules \cup {m}
  /\ tasks' = SelectSeq(tasks, LAMBDA task : task.module # m)
  /\ last' = [op |-> "loaded", module |-> m, handled |-> r.handled]
  /\ UNCHANGED <<dirs, clients, pending, timers>>

Loaded(U) ==
  \E m \in {"yjs", "structure"}, fails \in Fails :
    /\ last = Idle
    /\ \E i \in 1..Len(tasks) : tasks[i].module = m
    /\ LoadedReply(U, m, RunTasks(Cur, docs, Chan,
                                  SelectSeq(tasks, LAMBDA task : task.module = m),
                                  <<>>, fails))

\* The peer starts the closing handshake of an OPEN socket: its readyState
\* is CLOSING until the 'close' event.
PeerClose ==
  \E k \in DOMAIN sockets :
    /\ last = Idle
    /\ sockets[k].readyState = OPEN
    /\ sockets' = [sockets EXCEPT ![k].readyState = CLOSING]
    /\ last' = [op |-> "closing", socket |-> k]
    /\ UNCHANGED <<stores, dirs, docs, clients, pending, timers, loader>>

\* The 'close' event of a socket: its listener calls handleDisconnect with
\* the vaultName and deviceId of its connection.
SocketClosed ==
  \E k \in DOMAIN sockets :
    /\ last = Idle
    /\ sockets[k].readyState # CLOSED
    /\ sockets' = [sockets EXCEPT ![k].readyState = CLOSED]
    /\ clients' = handleDisconnect(clients, sockets[k].vaultName, sockets[k].deviceId)
    /\ last' = [op |-> "close", socket |-> k]
    /\ UNCHANGED <<stores, dirs, docs, pending, timers, loader>>

\* The 'error' event of an OPEN socket: its listener calls handleDisconnect;
\* the socket then closes and emits 'close'.
SocketError ==
  \E k \in DOMAIN sockets :
    /\ last = Idle
    /\ sockets[k].readyState = OPEN
    /\ sockets' = [sockets EXCEPT ![k].readyState = CLOSING]
    /\ clients' = handleDisconnect(clients, sockets[k].vaultName, sockets[k].deviceId)
    /\ last' = [op |-> "error", socket |-> k]
    /\ UNCHANGED <<stores, dirs, docs, pending, timers, loader>>

\* The clock advances; the interval timer fires when it is due.
MaxTime == MaxBeats * HEARTBEAT_INTERVAL
TimeStep == HEARTBEAT_INTERVAL \div StepsPerBeat

Tick ==
  /\ last = Idle
  /\ now < heartbeat
  /\ now < MaxTime
  /\ now' = now + TimeStep
  /\ UNCHANGED <<stores, last, dirs, docs, clients, pending, sockets, heartbeat, loader>>

\* Faulty variant of startHeartbeat: a client is closed as soon as its
\* lastSeen is CLIENT_TIMEOUT old.
startHeartbeatAtTimeout(w, t) ==
  LET Stale(client) == t - client.lastSeen >= CLIENT_TIMEOUT
      activeClients(n) == SelectSeq(w.clients[n], LAMBDA client : ~Stale(client))
      Of(n, keep) ==
        {w.clients[n][i].socket :
           i \in {j \in 1..Len(w.clients[n]) : Stale(w.clients[n][j]) # keep}}
      Closed(stale) ==
        [k \in DOMAIN w.sockets |->
           IF k \in stale THEN socketClose(w.sockets, k)[k] ELSE w.sockets[k]]
  IN [clients |-> [n \in {m \in DOMAIN w.clients : activeClients(m) # <<>>} |->
                     activeClients(n)],
      sockets |-> Closed(UNION {Of(n, FALSE) : n \in DOMAIN w.clients}),
      closed |-> UNION {Of(n, FALSE) : n \in DOMAIN w.clients},
      pinged |-> {k \in UNION {Of(n, TRUE) : n \in DOMAIN w.clients} :
                    sendToClient(w.sockets, k, {}).called}]

\* startHeartbeat, one run of the interval callback at time t: a client
\* whose lastSeen is more than CLIENT_TIMEOUT old has its socket closed and
\* is left out; the others are sent a ping and kept; a vault left without
\* clients loses its key.
startHeartbeat(w, t) ==
  LET Stale(client) == t - client.lastSeen > CLIENT_TIMEOUT
      activeClients(n) == SelectSeq(w.clients[n], LAMBDA client : ~Stale(client))
      Of(n, keep) ==
        {w.clients[n][i].socket :
           i \in {j \in 1..Len(w.clients[n]) : Stale(w.clients[n][j]) # keep}}
      Closed(stale) ==
        [k \in DOMAIN w.sockets |->
           IF k \in stale THEN socketClose(w.sockets, k)[k] ELSE w.sockets[k]]
  IN [clients |-> [n \in {m \in DOMAIN w.clients : activeClients(m) # <<>>} |->
                     activeClients(n)],
      sockets |-> Closed(UNION {Of(n, FALSE) : n \in DOMAIN w.clients}),
      closed |-> UNION {Of(n, FALSE) : n \in DOMAIN w.clients},
      pinged |-> {k \in UNION {Of(n, TRUE) : n \in DOMAIN w.clients} :
                    sendToClient(w.sockets, k, {}).called}]

Heartbeat ==
  /\ last = Idle
  /\ now = heartbeat
  /\ clients' = startHeartbeat(Chan, now).clients
  /\ sockets' = startHeartbeat(Chan, now).sockets
  /\ heartbeat' = heartbeat + HEARTBEAT_INTERVAL
  /\ last' = [op |-> "heartbeat", closed |-> startHeartbeat(Chan, now).closed,
              pinged |-> startHeartbeat(Chan, now).pinged]
  /\ UNCHANGED <<stores, dirs, docs, pending, now, loader>>

NextChannels ==
  \/ Upload(UChannels)
  \/ WsConnect(UChannels)
  \/ Message(UChannels)
  \/ Loaded(UChannels)
  \/ PeerClose
  \/ SocketClosed
  \/ SocketError
  \/ Respond

\* Specification of the channels: connections, inbound frames, lazy module
\* loading and socket events on two vaults.
SpecChannels == Init /\ [][NextChannels]_vars

NextHeartbeat ==
  \/ WsConnect(UBeat)
  \/ Message(UBeat)
  \/ PeerClose
  \/ SocketClosed
  \/ Tick
  \/ Heartbeat
  \/ Respond

\* Specification of the heartbeat: connections, pings from the clients and
\* the clock.
SpecHeartbeat == Init /\ [][NextHeartbeat]_vars

NextLive ==
  \/ Arrive(ULive)
  \/ HttpTurn(ULive)
  \/ WsTurn(ULive)
  \/ YjsTurn(ULive)

\* Specification of requests in flight together on the one vault.
SpecLive == Init /\ [][NextLive]_vars

----------------------------------------------------------------------------
(* Crashes.  The handlers write the stores call after call, with no        *)
(* transaction around the calls; a process that stops between two of them  *)
(* leaves on disk what was written so far.  The operators below give, for  *)
(* one operation, the states of the stores after each of its writes but    *)
(* the last.                                                               *)

UCrash == [paths |-> {"a.md"},
           rpaths |-> {"a.md", "b.md"},
           texts |-> {BaseText},
           contents |-> {{}},
           atomics |-> {TRUE},
           ticks |-> {TRUE},
           maxc |-> MaxCrashCommits]

\* POST /sync of a new file: commitFile, then ensureFileId, whose
\* createFileRecord is the INSERT followed by updateGitManifest.
createStages(s, p, content) ==
  LET Inserted(c) ==
        [c.s EXCEPT !.recs = Append(c.s.recs,
            [path |-> p, hash |-> computeHash(content), commit |-> c.commit,
             deleted |-> FALSE])]
      Committed(c) ==
        IF ~c.ok THEN <<>>
        ELSE IF getFileByPath(c.s, p) # 0 THEN <<c.s>>
        ELSE <<c.s, Inserted(c)>>
  IN IF getCurrentFile(s, p) # {} THEN <<>>
     ELSE Committed(commitFile(s, p, content))

\* processDelete: softDeleteFile (the UPDATE, then updateGitManifest), then
\* deleteFile.
deleteStages(s, fileId) ==
  IF getFileById(s, fileId) = 0 THEN <<>>
  ELSE <<[s EXCEPT !.recs[fileId].deleted = TRUE], softDeleteFile(s, fileId)>>

\* renameFile: the rename commit, recordPathChange, updateFileRecord (the
\* UPDATE, then updateGitManifest), then the amend.
renameStages(s, fileId, oldPath, newPath) ==
  LET Updated(moved, h) ==
        [h EXCEPT !.recs[fileId].path = newPath,
                  !.recs[fileId].hash = computeHash(s.files[oldPath]),
                  !.recs[fileId].commit = moved.head]
      Recorded(moved, h) == <<moved, h, Updated(moved, h), updateGitManifest(Updated(moved, h))>>
      Moved(moved) == Recorded(moved, recordPathChange(moved, fileId, oldPath, newPath))
  IN IF ~renameFile(s, fileId, oldPath, newPath, {}, FALSE).success THEN <<>>
     ELSE Moved(GitCommit(s, WriteFile(RemoveFile(s.files, oldPath), newPath,
                                       s.files[oldPath]),
                          s.objects[s.head].manifest))

\* The process stops with the stores at s and is started again: `last`
\* names the operation that was interrupted, and no answer was sent.
Crashed(U, during, s) ==
  /\ last = Idle
  /\ Len(s.objects) <= U.maxc
  /\ Len(s.recs) <= MaxCrashRows
  /\ Install(s)
  /\ last' = [op |-> "crash", during |-> during]
  /\ UNCHANGED live

CrashInCreate(U) ==
  \E p \in U.paths, c \in U.texts :
    \E k \in DOMAIN createStages(Cur, p, c) :
      Crashed(U, "create", createStages(Cur, p, c)[k])

CrashInDelete(U) ==
  \E f \in FileIds :
    \E k \in DOMAIN deleteStages(Cur, f) :
      Crashed(U, "delete", deleteStages(Cur, f)[k])

CrashInRename(U) ==
  \E f \in FileIds, old \in U.rpaths, new \in U.rpaths :
    \E k \in DOMAIN renameStages(Cur, f, old, new) :
      Crashed(U, "rename", renameStages(Cur, f, old, new)[k])

\* metadata.db is lost (the files and path_history tables with it) and
\* created empty again on the next access; the vault directory, with its
\* history and the manifest file, survives.  It happens once.
LoseIdentityStore ==
  /\ last = Idle
  /\ isVaultBootstrapped(Cur)
  /\ Len(recs) <= MaxCrashRows
  /\ \A f \in 1..Len(recs) : recs[f] # LostRow
  /\ recs' = [f \in 1..Len(recs) |-> LostRow]
  /\ hist' = <<>>
  /\ last' = [op |-> "lost"]
  /\ UNCHANGED <<files, objects, head, mfile, live>>

NextCrash ==
  \/ Sync(UCrash)
  \/ V2Delete(UCrash)
  \/ Rename(UCrash)
  \/ GetManifest(UCrash)
  \/ CrashInCreate(UCrash)
  \/ CrashInDelete(UCrash)
  \/ CrashInRename(UCrash)
  \/ LoseIdentityStore
  \/ Respond

\* Specification of one vault whose server process can stop inside a write
\* and whose Identity Store can be lost.
SpecCrash == Init /\ [][NextCrash]_vars

----------------------------------------------------------------------------
(* Request paths.  The routes hand the path of the request to db.ts as it  *)
(* came; every request of this specification is addressed to the vault v1. *)

UPaths == [paths |-> {"a.md", EscapingPath},
           rpaths |-> {"a.md", EscapingPath},
           texts |-> {BaseText, TextA1},
           contents |-> {{}},
           atomics |-> {TRUE},
           ticks |-> {TRUE},
           maxc |-> MaxPathsCommits]

\* A request is accepted while the table is within MaxPathsRows rows.
PathsSync == Len(recs) <= MaxPathsRows /\ Sync(UPaths)
PathsCreate == Len(recs) <= MaxPathsRows /\ V2Create(UPaths)
PathsDelete == Len(recs) <= MaxPathsRows /\ Delete(UPaths)
PathsGetFile == Len(recs) <= MaxPathsRows /\ GetFile(UPaths)

NextPaths ==
  \/ PathsSync
  \/ PathsCreate
  \/ PathsDelete
  \/ PathsGetFile
  \/ Respond

\* Specification of one vault and of the place next to it that a request
\* path can name.
SpecPaths == Init /\ [][NextPaths]_vars

----------------------------------------------------------------------------
(* Properties.  A step that answers a request leaves the request and its   *)
(* response in last'; the unprimed stores are the state the request found. *)

\* The base bytes /sync hands to mergeFile for the upload req.
SyncBase(req) ==
  IF req.base_commit = 0 THEN files[req.path]
  ELSE IF getFileAtCommit(Cur, req.path, req.base_commit) = {} THEN <<>>
  ELSE CHOOSE b \in getFileAtCommit(Cur, req.path, req.base_commit) : TRUE

\* req is a /sync upload whose three-way merge has conflicting hunks.
SyncConflicts(req) ==
  /\ req.op = "sync"
  /\ req.path \in DOMAIN files
  /\ req.base_commit # head
  /\ mergeFile(SyncBase(req), req.content, files[req.path]).hasConflicts

\* The base bytes processModify hands to mergeFile for the operation op.
ModifyBase(op) ==
  IF op.base_commit # 0
     /\ getFileAtCommit(Cur, recs[op.file_id].path, op.base_commit) # {}
  THEN CHOOSE b \in getFileAtCommit(Cur, recs[op.file_id].path, op.base_commit) : TRUE
  ELSE files[recs[op.file_id].path]

\* resp answers a v2 Modify whose three-way merge has conflicting hunks.
ModifyConflicts(resp) ==
  /\ resp.op = "v2"
  /\ resp.results[1].op.type = "modify"
  /\ resp.results[1].op.file_id \in 1..Len(recs)
  /\ ~recs[resp.results[1].op.file_id].deleted
  /\ recs[resp.results[1].op.file_id].path \in DOMAIN files
  /\ resp.results[1].op.base_commit # head
  /\ mergeFile(ModifyBase(resp.results[1].op),
               CHOOSE b \in resp.results[1].op.content : TRUE,
               files[recs[resp.results[1].op.file_id].path]).hasConflicts

\* The frame of a conflict answer r: success, both flags, markers, the old
\* HEAD as commit, and no commit object, HEAD move or byte change.
ConflictAnswer(r) ==
  /\ r.success /\ r.merged /\ r.has_conflicts
  /\ HasMarkers(r.merged_content)
  /\ r.commit = head
  /\ head' = head /\ objects' = objects /\ files' = files

\* C1: a /sync upload or a v2 Modify whose three-way merge conflicts creates
\* no commit: the answer has merged = has_conflicts = true, merged_content
\* with conflict markers and commit = the HEAD before the request, and HEAD,
\* the object store and the stored bytes are what they were.
C1_ConflictCreatesNoCommit ==
  [][/\ SyncConflicts(last') => last'.status = 200 /\ ConflictAnswer(last')
     /\ ModifyConflicts(last') =>
          last'.status = 200 /\ ConflictAnswer(last'.results[1])]_vars

\* A /sync upload against a known stale base has just been answered with a
\* conflict.
C1_Witness ==
  /\ last.op = "sync" /\ last.has_conflicts
  /\ last.base_commit \in 1..Len(objects) /\ last.base_commit # head
  /\ getFileAtCommit(Cur, last.path, last.base_commit) # {}
  /\ last.commit = head

\* req is a /sync upload with a stale base_commit that holds the file.
StaleSync(req) ==
  /\ req.op = "sync"
  /\ req.path \in DOMAIN files
  /\ req.base_commit \in 1..Len(objects) /\ req.base_commit # head
  /\ getFileAtCommit(Cur, req.path, req.base_commit) # {}

\* The lines the client, and the server, changed since the base.
ClientEdit(req) == ChangedIn(SyncBase(req), req.content)
ServerEdit(req) == ChangedIn(SyncBase(req), files[req.path])

\* The merge of req was committed and holds both edits.
MergeCommitted(req) ==
  /\ req.status = 200 /\ req.merged /\ ~req.has_conflicts
  /\ head' \notin 1..Len(objects) /\ head' = Len(objects') /\ req.commit = head'
  /\ \A i \in ClientEdit(req) : files'[req.path][i] = req.content[i]
  /\ \A i \in ServerEdit(req) : files'[req.path][i] = files[req.path][i]

\* C2 as stated: a stale-base upload whose edit and the server's edit touch
\* different lines is merged cleanly and committed, with both edits stored.
C2_DifferentLinesMerge ==
  [][(/\ StaleSync(last')
      /\ ClientEdit(last') # {} /\ ServerEdit(last') # {}
      /\ ClientEdit(last') \cap ServerEdit(last') = {})
     => MergeCommitted(last')]_vars

\* C2 amended: a stale-base upload whose edit and the server's edit are
\* separated by at least one line neither side changed is merged cleanly
\* and committed, with both edits stored.
C2_SeparatedLinesMerge ==
  [][(/\ StaleSync(last')
      /\ ClientEdit(last') # {} /\ ServerEdit(last') # {}
      /\ \A i \in ClientEdit(last') : \A j \in ServerEdit(last') :
           i - j > 1 \/ j - i > 1)
     => MergeCommitted(last')]_vars

\* A clean merge of the edits of line 1 and line 3 has just been committed.
C2_Witness ==
  /\ last.op = "sync" /\ last.status = 200 /\ last.merged /\ ~last.has_conflicts
  /\ last.base_commit \in 1..Len(objects) /\ last.commit = head
  /\ files[last.path] \in {<<"L1a", "L2", "L3b">>, <<"L1b", "L2", "L3b">>}

\* C3: an upload to an existing path with base_commit = HEAD is not merged:
\* the stored bytes become the client's, the answer has merged = false and
\* has_conflicts = false, and if the bytes differ from the server's the
\* returned commit is a new HEAD different from base_commit.
C3_FastForward ==
  [][(/\ last'.op = "sync"
      /\ last'.path \in DOMAIN files
      /\ last'.base_commit = head)
     => (/\ last'.status = 200 /\ ~last'.merged /\ ~last'.has_conflicts
         /\ files'[last'.path] = last'.content
         /\ last'.content # files[last'.path] =>
              /\ last'.commit = head' /\ head' # last'.base_commit
              /\ head' \notin 1..Len(objects))]_vars

\* C5: uploading the bytes the path already holds answers merged = false and
\* has_conflicts = false and leaves HEAD unchanged, for every base_commit.
C5_IdenticalUploadIsNoOp ==
  [][(/\ last'.op = "sync"
      /\ last'.path \in DOMAIN files
      /\ last'.content = files[last'.path])
     => (/\ last'.status = 200 /\ ~last'.merged /\ ~last'.has_conflicts
         /\ head' = head)]_vars

\* C4: an upload to a path that is not on the server succeeds, for every
\* base_commit, with merged = false, has_conflicts = false and hash =
\* SHA-256 of the bytes; a GET of the path in the state the upload leaves
\* returns those bytes, the same hash and the commit the upload returned;
\* and a GET returns the stored bytes and their hash and writes nothing to
\* the Content Store.
C4_UploadThenGetRoundTrip ==
  [][/\ (last'.op = "sync" /\ last'.path \notin DOMAIN files) =>
          /\ last'.status = 200 /\ ~last'.merged /\ ~last'.has_conflicts
          /\ last'.hash = computeHash(last'.content)
          /\ fileHandler(Cur', last'.path).resp.status = 200
          /\ fileHandler(Cur', last'.path).resp.content = {last'.content}
          /\ fileHandler(Cur', last'.path).resp.hash = last'.hash
          /\ fileHandler(Cur', last'.path).resp.commit = last'.commit
     /\ (last'.op = "file" /\ last'.path \in DOMAIN files) =>
          /\ last'.status = 200
          /\ last'.content = {files[last'.path]}
          /\ last'.hash = computeHash(files[last'.path])
          /\ files' = files /\ objects' = objects /\ head' = head]_vars

\* A GET has just answered for a file that the HEAD commit created, in a
\* vault where no rename ever happened: the file was uploaded to a new path.
C4_Witness ==
  /\ last.op = "file" /\ last.status = 200 /\ last.commit = head
  /\ hist = <<>>
  /\ last.path \notin DOMAIN objects[objects[head].parent].tree

\* resp answers a successful rename, by the endpoint or as a v2 operation.
RenameOk(resp) == resp.op = "rename" /\ resp.success
V2RenameOk(resp) ==
  /\ resp.op = "v2"
  /\ resp.results[1].op.type = "rename"
  /\ resp.results[1].success

\* The paths of the manifest rows that GET /manifest lists after the step.
ManifestAfter == getManifest(Cur').files

\* After the step, F (answered as fileId) is the one manifest row at B, no
\* row is at A, and A is among F's previous paths.
RenameKeepsIdentity(F, A, B, fileId) ==
  /\ \A i \in 1..Len(ManifestAfter) : ManifestAfter[i].path # A
  /\ Cardinality({i \in 1..Len(ManifestAfter) : ManifestAfter[i].path = B}) = 1
  /\ \A i \in 1..Len(ManifestAfter) :
       ManifestAfter[i].path = B => ManifestAfter[i].file_id = F
  /\ fileId = F
  /\ A \in getAllPreviousPaths(Cur', F)

\* C6: after a successful Rename(F, A -> B) the manifest has no row for A
\* and exactly one row for B, with file_id F; the answer carries file_id F;
\* and F's previous paths include A.
C6_RenameKeepsIdentity ==
  [][/\ RenameOk(last') =>
          RenameKeepsIdentity(last'.req_file_id, last'.old_path,
                              last'.new_path, last'.file_id)
     /\ V2RenameOk(last') =>
          RenameKeepsIdentity(last'.results[1].op.file_id,
                              last'.results[1].op.old_path,
                              last'.results[1].op.path,
                              last'.results[1].file_id)]_vars

\* Rename(F, A -> B) succeeded at some time: path_history has the row.
RenamedTo(F, A, B) ==
  \E i \in 1..Len(hist) :
    hist[i] = [file_id |-> F, old_path |-> A, new_path |-> B]

\* F is active at a path that holds bytes with hash h.
StillAt(F, h) ==
  /\ ~recs[F].deleted
  /\ recs[F].path \in DOMAIN files
  /\ computeHash(files[recs[F].path]) = h

\* resp answers detect-rename(A, h) without file_id by F at F's path.
DetectFinds(resp, F) ==
  resp.found /\ resp.new_path = recs[F].path /\ resp.file_id = F

\* C7 as stated: once Rename(F, A -> B) succeeded, whenever F is active at B
\* with its content, detect-rename(A, hash of F) without file_id answers
\* found = true, new_path = B, file_id = F, whatever else the vault holds.
C7_DetectAfterRename ==
  [][(last'.op = "detect" /\ last'.req_file_id = 0) =>
       \A F \in 1..Len(recs) :
         (/\ RenamedTo(F, last'.missing_path, recs[F].path)
          /\ StillAt(F, last'.missing_hash))
         => DetectFinds(last', F)]_vars

\* F's row is the only active row with content_hash h at a path other than A.
OnlyHashMatch(F, A, h) ==
  /\ recs[F].hash = h
  /\ \A G \in ActiveIds(recs) \ {F} : recs[G].hash # h \/ recs[G].path = A

\* C7 amended: the same answer is given whenever, in addition, F's row is
\* the only active row with that content hash at a path other than A.
C7_DetectAfterRenameUnique ==
  [][(last'.op = "detect" /\ last'.req_file_id = 0) =>
       \A F \in 1..Len(recs) :
         (/\ RenamedTo(F, last'.missing_path, recs[F].path)
          /\ StillAt(F, last'.missing_hash)
          /\ OnlyHashMatch(F, last'.missing_path, last'.missing_hash))
         => DetectFinds(last', F)]_vars

\* detect-rename has just found a renamed file by its hash at its new path,
\* in a vault that holds another active file at the old path.
C7_Witness ==
  /\ last.op = "detect" /\ last.req_file_id = 0 /\ last.found
  /\ last.detection_method = "hash_match"
  /\ RenamedTo(last.file_id, last.missing_path, last.new_path)
  /\ \E G \in ActiveIds(recs) \ {last.file_id} : recs[G].path = last.missing_path

\* The record Rename(F, A -> ...) requires: active, with current_path = A.
RenameAllowed(F, A) ==
  F \in 1..Len(recs) /\ ~recs[F].deleted /\ recs[F].path = A

\* C8: a rename succeeds only for an active record whose current_path is
\* old_path; for any other file_id it fails and changes neither store.
C8_RenameNeedsActiveRecord ==
  [][/\ (last'.op = "rename"
         /\ ~RenameAllowed(last'.req_file_id, last'.old_path)) =>
          ~last'.success /\ UNCHANGED stores
     /\ (last'.op = "v2" /\ last'.results[1].op.type = "rename"
         /\ ~RenameAllowed(last'.results[1].op.file_id,
                           last'.results[1].op.old_path)) =>
          ~last'.results[1].success /\ UNCHANGED stores]_vars

\* C9: the commit a successful rename returns is the HEAD it leaves.
C9_RenameReturnsHead ==
  [][/\ RenameOk(last') => last'.commit = head'
     /\ V2RenameOk(last') => last'.results[1].commit = head']_vars

\* The paths F has been at.
FormerPaths(F) ==
  {recs[F].path} \cup getAllPreviousPaths(Cur, F)

\* resp answers the creation of a file: an upload to, or a v2 create at, a
\* path that was not on the server.  Its path and the file_id it received.
CreatedPath(resp) ==
  IF resp.op = "sync" THEN resp.path ELSE resp.results[1].op.path
CreatedId(resp) ==
  IF resp.op = "sync" THEN resp.file_id ELSE resp.results[1].file_id
Creates(resp) ==
  \/ resp.op = "sync" /\ resp.status = 200 /\ resp.path \notin DOMAIN files
  \/ /\ resp.op = "v2"
     /\ resp.results[1].op.type = "create"
     /\ resp.results[1].success

\* C10: a soft-deleted file_id F stays soft-deleted, is in no manifest row,
\* and a file created later at a former path of F receives a file_id that
\* is neither F nor any file_id assigned before.
C10_DeletedIdNeverRevived ==
  [][\A F \in 1..Len(recs) :
       recs[F].deleted =>
         /\ recs'[F].deleted
         /\ \A i \in 1..Len(ManifestAfter) : ManifestAfter[i].file_id # F
         /\ \A row \in mfile'.rows : row[1] # F
         /\ (Creates(last') /\ CreatedPath(last') \in FormerPaths(F)) =>
              CreatedId(last') \notin 1..Len(recs)]_vars

\* The file_id of the manifest row that GET /manifest lists for path p in the
\* stores s; 0 when the manifest has no row for p.
RowId(rows, p) ==
  IF \E i \in 1..Len(rows) : rows[i].path = p
  THEN rows[CHOOSE i \in 1..Len(rows) : rows[i].path = p].file_id
  ELSE 0
ManifestId(s, p) == RowId(getManifest(s).files, p)

\* resp answers a successful v2 Modify of an active file.
V2ModifyOk(resp) ==
  /\ resp.op = "v2"
  /\ resp.results[1].op.type = "modify"
  /\ resp.results[1].success

\* C11: along the uploads and v2 modifies of one path, with no delete or
\* rename of the file in between, every answer carries the same file_id,
\* the one of the path's manifest row: the row's file_id does not change
\* while the path stays tracked, and each successful upload or modify
\* answers with the file_id of the row of the path it wrote.
C11_UploadsKeepFileId ==
  [][/\ \A p \in DOMAIN files \cap DOMAIN files' :
          ManifestId(Cur', p) = ManifestId(Cur, p)
     /\ (last'.op = "sync" /\ last'.status = 200) =>
          last'.file_id = ManifestId(Cur', last'.path)
     /\ V2ModifyOk(last') =>
          last'.results[1].file_id =
            ManifestId(Cur', recs[last'.results[1].op.file_id].path)]_vars

\* The active identity records whose current_path is p.
ActiveAt(p) == {f \in ActiveIds(recs) : recs[f].path = p}

\* C17: every tracked path has exactly one non-deleted identity record whose
\* current_path equals it, and no two non-deleted records share a
\* current_path.
C17_OneActiveRecordPerTrackedPath ==
  /\ \A p \in DOMAIN files : Cardinality(ActiveAt(p)) = 1
  /\ \A f \in ActiveIds(recs) : ActiveAt(recs[f].path) = {f}

\* C18: the current_path of every non-deleted identity record is a path that
\* exists in the vault.
C18_ActiveRecordsPointAtFiles ==
  \A f \in ActiveIds(recs) : recs[f].path \in DOMAIN files

\* C19: the manifest committed at HEAD lists exactly the non-deleted identity
\* records with their current paths, and the manifest file of the working
\* directory is the committed one.
C19_ManifestCommittedAtHead ==
  /\ objects[head].manifest.rows =
       {<<f, recs[f].path>> : f \in ActiveIds(recs)}
  /\ mfile = objects[head].manifest

\* One operation of a batch on the stores s: what the loop body of the
\* sync/v2 handler does with operations[index].
OneOp(s, op, index, tick) ==
  IF op.type = "" \/ op.path = ""
  THEN OpFailed(s, op, index, "Operation requires type and path")
  ELSE processOperation(s, op, index, tick)

\* The operations i+1..n of ops run one after the other, every one of them:
\* the stores they leave and their results.
RECURSIVE ApplyOps(_, _, _, _, _, _)
ApplyOps(s, ops, i, n, results, tick) ==
  LET Next1(r) == ApplyOps(r.s, ops, i + 1, n, Append(results, r.result), tick)
  IN IF i >= n THEN [s |-> s, results |-> results]
     ELSE Next1(OneOp(s, ops[i + 1], i, tick))

\* The 1-based position of the first failed result, 0 when all succeeded.
FirstFailure(results) ==
  IF \A j \in 1..Len(results) : results[j].success THEN 0
  ELSE Min({j \in 1..Len(results) : ~results[j].success})

\* resp answers a v2 batch of the single operation create.
SingleCreate(resp) ==
  /\ resp.op = "v2" /\ Len(resp.ops) = 1
  /\ resp.ops[1].type = "create" /\ resp.ops[1].content # {}

\* C12: a v2 Create at a path that holds a file fails with the error "File
\* already exists" and changes neither the bytes, HEAD nor the identity
\* records; a Create at a path without a file succeeds for every byte
\* string, stores the bytes, assigns a file_id no record had before and
\* answers merged = false, has_conflicts = false.
C12_CreateOnlyAtFreePath ==
  [][SingleCreate(last') =>
       IF last'.ops[1].path \in DOMAIN files
       THEN /\ ~last'.results[1].success
            /\ last'.results[1].error = "File already exists"
            /\ UNCHANGED stores
       ELSE /\ last'.results[1].success
            /\ ~last'.results[1].merged /\ ~last'.results[1].has_conflicts
            /\ last'.results[1].file_id = Len(recs) + 1
            /\ Len(recs') = Len(recs) + 1
            /\ last'.ops[1].path \in DOMAIN files'
            /\ last'.ops[1].content = {files'[last'.ops[1].path]}]_vars

\* What an atomic batch must answer and leave when, run one after the
\* other from the stores the batch found, its first failed operation is
\* the k-th (1-based): HTTP 400, success = false, the results 1..k, the
\* HEAD before the batch as head_commit, and the stores that the
\* operations 1..k leave.
StoppedAt(resp, run, k) ==
  /\ resp.status = 400 /\ ~resp.success
  /\ resp.results = SubSeq(run.results, 1, k)
  /\ \A j \in 1..k : resp.results[j].index = j - 1
  /\ resp.head_commit = head
  /\ \E tick \in BOOLEAN : Cur' = ApplyOps(Cur, resp.ops, 0, k, <<>>, tick).s

\* C13: an atomic batch stops at its first failed operation, index k: the
\* answer is HTTP 400 with success = false, the results of the indices
\* 0..k in order and the HEAD before the batch as head_commit, and no later
\* operation runs or changes the vault.
C13_AtomicStopsAtFirstFailure ==
  [][(last'.op = "v2" /\ last'.atomic) =>
       \E tick \in BOOLEAN :
         LET run == ApplyOps(Cur, last'.ops, 0, Len(last'.ops), <<>>, tick)
         IN IF FirstFailure(run.results) = 0
            THEN last'.status = 200 /\ last'.success /\ last'.results = run.results
            ELSE StoppedAt(last', run, FirstFailure(run.results))]_vars

\* An atomic batch of three operations has just been stopped at its second
\* one, after the first one moved HEAD.
C13_Witness ==
  /\ last.op = "v2" /\ last.atomic /\ last.status = 400
  /\ Len(last.ops) = 3 /\ Len(last.results) = 2
  /\ last.results[1].success /\ ~last.results[2].success
  /\ last.head_commit # head

\* C14: an atomic batch is all or nothing: when one of its operations fails,
\* HEAD, the tracked files and the identity records are those the batch
\* found.
C14_AtomicBatchAllOrNothing ==
  [][(last'.op = "v2" /\ last'.atomic /\ ~last'.success) =>
       head' = head /\ files' = files /\ recs' = recs]_vars

\* C15: a non-atomic batch attempts every operation: one result per
\* operation with results[i].index = i, operations after a failed one take
\* effect, success is the conjunction of the results' success flags and
\* head_commit is the HEAD after the last operation.
C15_NonAtomicRunsEveryOperation ==
  [][(last'.op = "v2" /\ ~last'.atomic) =>
       /\ last'.status = 200
       /\ Len(last'.results) = Len(last'.ops)
       /\ \A j \in 1..Len(last'.results) : last'.results[j].index = j - 1
       /\ last'.success = (\A j \in 1..Len(last'.results) : last'.results[j].success)
       /\ last'.head_commit = head'
       /\ \E tick \in BOOLEAN :
            /\ Cur' = ApplyOps(Cur, last'.ops, 0, Len(last'.ops), <<>>, tick).s
            /\ last'.results =
                 ApplyOps(Cur, last'.ops, 0, Len(last'.ops), <<>>, tick).results]_vars

\* A non-atomic batch has just been answered whose second operation failed
\* and whose third one created the HEAD commit.
C15_Witness ==
  /\ last.op = "v2" /\ ~last.atomic /\ Len(last.results) = 3
  /\ ~last.results[2].success
  /\ last.results[3].success /\ last.results[3].commit = head
  /\ last.results[3].op.type = "create"

\* The whole handler of the received request req has run on the stores of
\* this state, alone, and its response has been sent.
RanWhole(req) ==
  LET Http(r) == Cur' = r.s /\ docs' = docs /\ clients' = clients /\ last' = r.resp
      Yjs(r) == Cur' = r.s /\ docs' = r.docs /\ clients' = clients /\ last' = r.resp
      Ws(r) == Cur' = Cur /\ docs' = docs /\ clients' = r.w.clients /\ last' = r.resp
  IN IF req.kind = "yjs" THEN Yjs(yjsHandler(Cur, docs, Chan, req))
     ELSE IF req.kind = "ws" THEN Ws(wsHandler(Chan, NextSocket, req, now))
     ELSE Http(Served(Cur, req))

\* C16: writes to the vault are serialized.  With requests of several
\* devices in flight, every step that changes the files, the history, the
\* identity records or the CRDT documents, or that sends a response, is the
\* complete handler of exactly one received request, run on the state the
\* step found: no operation of a batch runs between two operations of
\* another request, and state and responses are those of running the
\* requests one after the other in the order they were handled.
C16_WritesSerialized ==
  [][(stores' # stores \/ docs' # docs \/ clients' # clients \/ last' # last) =>
       \E d \in Devices :
         /\ pending[d] # NoJob
         /\ pending' = [pending EXCEPT ![d] = NoJob]
         /\ RanWhole(pending[d].req)]_vars

\* A batch of two creates has been applied whole and answered while a write
\* of the other device was waiting to be handled.
C16_Witness ==
  /\ last.op = "http" /\ last.req.kind = "v2"
  /\ Len(last.body.results) = 2
  /\ last.body.results[1].success /\ last.body.results[2].success
  /\ \E d \in Devices :
       /\ pending[d] # NoJob
       /\ pending[d].req.kind \in {"sync", "v2", "rename", "delete", "yjs"}

\* The name n fails validation: it is empty, longer than 100 characters,
\* has a character outside letters, digits, underscore, dash and space, or
\* contains "..", "/" or "\".
NameFails(n) ==
  \/ n = <<>>
  \/ Len(n) > MaxVaultNameLength
  \/ \E i \in 1..Len(n) : n[i] \notin Lower \cup Upper \cup Digits \cup {"_", "-", " "}
  \/ \E i \in 1..Len(n) : n[i] \in {"/", "\\"}
  \/ \E i \in 1..(Len(n) - 1) : n[i] = "." /\ n[i + 1] = "."

\* C20: a request whose vault name fails validation changes nothing: an
\* HTTP endpoint answers 400, the WebSocket endpoint closes the socket, and
\* the vault directories, the commits and files, the identity records, the
\* CRDT documents and the channel table are unchanged.
C20_BadNameChangesNothing ==
  [][(last = Idle /\ last'.op \in {"http", "ws"} /\ NameFails(last'.req.vault)) =>
       /\ last'.status = IF last'.op = "http" THEN 400 ELSE 1008
       /\ UNCHANGED <<stores, dirs, docs, clients>>]_vars

\* A DELETE of an existing path, sent with a name that fails validation, has
\* been answered 400 and the file is still there.
C20_Witness ==
  /\ last.op = "http" /\ last.req.kind = "delete" /\ last.status = 400
  /\ NameFails(last.req.vault)
  /\ last.req.ops[1].path \in DOMAIN files

\* The reserved paths: everything under .scion/ and the .gitignore file.
Reserved == ScionPaths \cup {".gitignore"}

\* C21: neither the files of a manifest response nor the changed_files of a
\* status response contain a reserved path, also after renames, which
\* commit the manifest file.
C21_ReservedPathsNeverListed ==
  /\ last.op = "manifest" =>
       \A i \in 1..Len(last.files) : last.files[i].path \notin Reserved
  /\ last.op = "status" =>
       \A i \in 1..Len(last.changed_files) : last.changed_files[i] \notin Reserved

\* resp answers a write whose target path is p.
WritesTo(resp, p) ==
  \/ resp.op \in {"sync", "delete"} /\ resp.path = p
  \/ resp.op = "rename" /\ resp.new_path = p
  \/ /\ resp.op = "v2"
     /\ resp.results[1].op.type \in {"create", "rename"}
     /\ resp.results[1].op.path = p

\* C22: a write (single sync, v2 create or rename, explicit rename, delete)
\* whose target path is reserved is rejected and changes neither the
\* Content Store nor the Identity Store.
C22_ReservedPathsNotWritable ==
  [][(\E p \in Reserved : WritesTo(last', p)) =>
       /\ ~last'.success
       /\ UNCHANGED stores]_vars

\* C23: a status query answers the current HEAD as head_commit; with since
\* equal to HEAD it answers no changed file and has_changes = false; with
\* since absent or not a commit of the vault it answers all tracked paths.
C23_StatusEdges ==
  [][last'.op = "status" =>
       /\ last'.head_commit = head'
       /\ last'.since = head =>
            last'.changed_files = <<>> /\ ~last'.has_changes
       /\ last'.since \notin 1..Len(objects) =>
            {last'.changed_files[i] : i \in 1..Len(last'.changed_files)} =
              DOMAIN files \ Reserved]_vars

\* The file_id of a detect-rename request resolves the rename by itself.
Resolves(rs, fileId, missingPath) ==
  /\ fileId \in 1..Len(rs)
  /\ rs[fileId].path # missingPath
  /\ ~rs[fileId].deleted

\* The active records at a path other than missingPath whose hash is h.
HashCandidates(rs, missingPath, h) ==
  {f \in ActiveIds(rs) : rs[f].hash = h /\ rs[f].path # missingPath}

\* resp answers a detect-rename request that its file_id does not resolve.
DetectByContent(resp) ==
  /\ resp.op = "detect"
  /\ ~Resolves(recs, resp.req_file_id, resp.missing_path)

SingleModify(resp, f) ==
  /\ resp.op = "v2" /\ Len(resp.ops) = 1
  /\ resp.ops[1].type = "modify" /\ resp.ops[1].content # {}
  /\ resp.ops[1].file_id = f

\* The file of the identity record f was deleted on the server: the record
\* is soft-deleted or no file is left at its current_path.
DeletedOnServer(f) == recs[f].deleted \/ recs[f].path \notin DOMAIN files

\* C30: a v2 Modify addressed to a file_id whose file was deleted on the
\* server succeeds: it stores the client's bytes at the record's path in one
\* fresh commit and answers merged = false, has_conflicts = false.
C30_ModifyRecreatesDeletedFile ==
  [][\A f \in 1..Len(recs) :
       (SingleModify(last', f) /\ DeletedOnServer(f)) =>
         /\ last'.results[1].success
         /\ ~last'.results[1].merged /\ ~last'.results[1].has_conflicts
         /\ head' = head + 1
         /\ recs[f].path \in DOMAIN files'
         /\ last'.ops[1].content = {files'[recs[f].path]}]_vars


\* The sockets that have an entry in the table c.
Registered(c) == UNION {{c[n][i].socket : i \in 1..Len(c[n])} : n \in DOMAIN c}

\* The entries of device d in the table of vault n.
EntriesOf(c, n, d) ==
  {i \in 1..Len(getVaultClients(c, n)) : getVaultClients(c, n)[i].deviceId = d}

\* C25: when a device opens a channel for a (vault, device_id) that has one,
\* the old channel is closed and replaced: the table then holds exactly one
\* entry for the pair, the one of the new socket; and a registered channel
\* stays registered as long as its own socket is OPEN, so the close event
\* of a displaced socket never removes the channel that replaced it.
C25_ReconnectReplacesChannel ==
  [][/\ (last'.op = "ws" /\ last'.status = 101) =>
          /\ Cardinality(EntriesOf(clients', last'.req.vault, last'.req.dev)) = 1
          /\ SocketOf(clients', last'.req.vault, last'.req.dev) = NextSocket
          /\ \A k \in Registered(clients) \ Registered(clients') :
               sockets'[k].readyState # OPEN
     /\ \A k \in Registered(clients) :
          sockets'[k].readyState = OPEN => k \in Registered(clients')]_vars


\* The registered channels of vault n, other than those of device d, whose
\* socket is OPEN.
OpenPeers(n, d) ==
  {k \in Registered(clients) :
     /\ sockets[k].vaultName = n /\ sockets[k].deviceId # d
     /\ sockets[k].readyState = OPEN}

\* The messages whose handling ended in this step: a binary-update in the
\* step that received it, an update when its handler has run.
HandledIn(resp) ==
  IF resp.op \in {"message", "loaded"}
  THEN {resp.handled[i] : i \in 1..Len(resp.handled)} ELSE {}

\* C26: a relayable message (yjs-update, structure-update, binary-update)
\* received from device D on vault V is sent to every other registered
\* channel of V whose socket is OPEN, and to no other socket: not to D, not
\* to a channel of another vault, not to a socket that is not OPEN.
C26_RelayedToOpenPeers ==
  [][\A h \in HandledIn(last') :
       h.targets = OpenPeers(h.task.vaultName, h.task.deviceId)]_vars


\* C28: when sending a frame to a channel fails, that channel is closed: its
\* socket is no longer OPEN and it has left the table, so that it receives
\* no later broadcast; the other channels the frame went to stay open and
\* registered and have received it.
C28_FailedSendClosesChannel ==
  [][\A h \in HandledIn(last') :
       /\ \A k \in h.failed :
            sockets'[k].readyState # OPEN /\ k \notin Registered(clients')
       /\ \A k \in h.targets \ h.failed :
            /\ sockets'[k].readyState = OPEN /\ k \in Registered(clients')
            /\ Len(sockets'[k].sent) > Len(sockets[k].sent)]_vars


\* The pairs of positions i < j of the frames sent to socket k that come
\* from one origin socket and where the frame sent first was received later.
Overtakings(k) ==
  {p \in (1..Len(sockets[k].sent)) \X (1..Len(sockets[k].sent)) :
     /\ p[1] < p[2]
     /\ sockets[k].sent[p[1]].from = sockets[k].sent[p[2]].from
     /\ sockets[k].sent[p[1]].n > sockets[k].sent[p[2]].n}

\* C29: the relayed messages of one origin reach each peer in the
\* order in which the server received them, whatever their kinds and also
\* while an update waits for its handler module to load.
C29_RelayedInReceivedOrder ==
  \A k \in DOMAIN sockets : Overtakings(k) = {}


\* The table entry of the registered socket k.
EntryOf(c, k) ==
  CHOOSE e \in UNION {{c[n][i] : i \in 1..Len(c[n])} : n \in DOMAIN c} : e.socket = k

\* The last inbound frame of the registered socket k (its connection, if it
\* sent none) is more than 60 s old.
StaleAt(k) == now - EntryOf(clients, k).lastSeen > CLIENT_TIMEOUT

\* The runs of the heartbeat that came later than time t, when the next
\* run is due at time due.
BeatsAfter(due, t) == (due \div HEARTBEAT_INTERVAL - 1) - t \div HEARTBEAT_INTERVAL

\* What C27 says of the eviction: a run of the heartbeat closes and removes
\* exactly the channels whose last inbound frame is more than 60 s old and
\* keeps the others with their last_seen, which the ping does not refresh.
EvictsExactlyStale ==
  \A k \in Registered(clients) :
    IF StaleAt(k)
    THEN /\ k \notin Registered(clients')
         /\ sockets'[k].readyState # OPEN
         /\ k \in last'.closed
    ELSE /\ k \in Registered(clients')
         /\ EntryOf(clients', k).lastSeen = EntryOf(clients, k).lastSeen
         /\ sockets'[k] = sockets[k]

\* C27: at every heartbeat tick exactly the channels whose last inbound
\* frame is more than 60 s old are closed and removed from the table, and
\* every other channel is kept and sent a ping; the pings do not refresh
\* last_seen, so a channel is evicted no later than the third 30 s tick
\* after its last frame, and a channel whose frames are never more than
\* 60 s old at a tick is never evicted.
C27_HeartbeatEvictsStale ==
  [][/\ last'.op = "heartbeat" =>
          /\ EvictsExactlyStale
          /\ \A k \in Registered(clients') : k \in last'.pinged
     /\ \A k \in Registered(clients') :
          BeatsAfter(heartbeat', EntryOf(clients', k).lastSeen) <= 2]_vars

\* C27, amended: as C27, but a kept channel is sent a ping exactly when its
\* socket is OPEN; a channel whose socket is closing stays in the table
\* without a ping until its 'close' event.
C27_HeartbeatPingsOpenChannels ==
  [][/\ last'.op = "heartbeat" =>
          /\ EvictsExactlyStale
          /\ \A k \in Registered(clients') :
               k \in last'.pinged <=> sockets[k].readyState = OPEN
          /\ last'.pinged \subseteq Registered(clients')
     /\ \A k \in Registered(clients') :
          BeatsAfter(heartbeat', EntryOf(clients', k).lastSeen) <= 2]_vars

\* A run of the heartbeat has just closed a channel that was silent for
\* more than 60 s, on its third tick, and pinged another one that it kept.
C27_Witness ==
  /\ last.op = "heartbeat"
  /\ last.closed # {} /\ last.pinged # {}
  /\ \E k \in last.closed : sockets[k].readyState = CLOSING
  /\ now = 3 * HEARTBEAT_INTERVAL

----------------------------------------------------------------------------
(* Path history and current_path.                                          *)

\* The indices of the path_history rows of file f in the table h.
HistoryOf(h, f) == {i \in 1..Len(h) : h[i].file_id = f}

\* The step changes the current_path of row f.
Moves(f) == f \in 1..Len(recs) /\ recs'[f].path # recs[f].path

\* C31: every step that changes a row's current_path appends exactly the
\* path_history row (file_id, old current_path, new current_path) and
\* nothing else to the history, and no step appends a history row without
\* moving its file; so after every step a row without history rows is at
\* the path it had before (the path it was created with), and a row with
\* history rows is at the new_path of its most recent one.
C31_HistoryRecordedWithPathChange ==
  [][/\ \A f \in 1..Len(recs) :
          Moves(f) =>
            hist' = Append(hist, [file_id |-> f, old_path |-> recs[f].path,
                                  new_path |-> recs'[f].path])
     /\ hist' # hist =>
          /\ Len(hist') = Len(hist) + 1
          /\ Moves(hist'[Len(hist')].file_id)
     /\ \A f \in 1..Len(recs') :
          IF HistoryOf(hist', f) = {}
          THEN f \in 1..Len(recs) => recs'[f].path = recs[f].path
          ELSE recs'[f].path = hist'[Max(HistoryOf(hist', f))].new_path]_vars

\* A second rename of the same file was answered with success.
C31_Witness ==
  /\ RenameOk(last) \/ V2RenameOk(last)
  /\ \E f \in 1..Len(recs) :
       /\ Cardinality(HistoryOf(hist, f)) >= 2
       /\ recs[f].path = hist[Max(HistoryOf(hist, f))].new_path


----------------------------------------------------------------------------
(* Failed operations.                                                      *)

\* resp reports the failure of a single operation: a v2 request of one
\* operation whose result has success = false, or an error status of the
\* sync, rename or DELETE endpoint.
ReportsFailure(resp) ==
  \/ /\ resp.op = "v2"
     /\ Len(resp.ops) = 1
     /\ ~resp.results[1].success
  \/ /\ resp.op \in {"sync", "rename", "delete"}
     /\ resp.status >= 400

\* C32: an operation that reports failure leaves HEAD, the tracked files
\* and every identity record as they were.
C32_FailureChangesNothing ==
  [][ReportsFailure(last') =>
       /\ head' = head
       /\ files' = files
       /\ recs' = recs]_vars

----------------------------------------------------------------------------
(* Real-time updates.                                                      *)

\* The file_id a yjs-update answer is about.
YjsFile(resp) == resp.req.ops[1].file_id

\* C33: a yjs-update that is answered with success was applied to the
\* stored CRDT document of its file and its text was committed at the
\* file's path before the broadcast; one that is answered with an error
\* leaves the stored CRDT documents, HEAD and the files as they were and is
\* broadcast to nobody.
C33_YjsUpdateAllOrNothing ==
  [][last'.op = "yjs" =>
       IF last'.success
       THEN /\ docs' = applyYjsUpdate(docs, YjsFile(last'), last'.req.update)
            /\ getFileById(Cur, YjsFile(last')) # 0
            /\ head' # head
            /\ getCurrentFile(Cur', recs[YjsFile(last')].path) =
                 {DocText(docs'[YjsFile(last')])}
       ELSE /\ docs' = docs
            /\ head' = head
            /\ files' = files
            /\ last'.broadcast = <<>>]_vars

\* C34: a yjs-update for a file_id whose identity record is soft-deleted
\* writes nothing to the Content Store: HEAD and the files stay as they were.
C34_YjsUpdateOfDeletedFileWritesNothing ==
  [][/\ last'.op = "yjs"
     /\ getFileById(Cur, YjsFile(last')) # 0
     /\ recs[YjsFile(last')].deleted
     => /\ head' = head
        /\ files' = files]_vars

----------------------------------------------------------------------------
(* Sync without a base.                                                    *)

\* The request answered by the step has no base_commit and names a path
\* that exists on the server with other bytes than the client's.
NoBaseDiffers(req) ==
  /\ req.op = "sync"
  /\ req.base_commit = 0
  /\ getCurrentFile(Cur, req.path) # {}
  /\ files[req.path] # req.content

----------------------------------------------------------------------------
(* Crash recovery.                                                         *)

\* The stores s hold exactly one active identity record per tracked path
\* and no active record for an untracked path.
Consistent(s) ==
  /\ \A p \in DOMAIN s.files :
       Cardinality({f \in ActiveIds(s.recs) : s.recs[f].path = p}) = 1
  /\ \A f \in ActiveIds(s.recs) : s.recs[f].path \in DOMAIN s.files

\* The manifest served from the stores s lists no file under a file_id
\* that s does not hold yet.
NoFreshId(s) == Len(getManifest(s).s.recs) = Len(s.recs)

\* C36: when the process stops inside a create, delete or rename that
\* started on consistent stores, the stores it leaves are consistent, and
\* after an interrupted delete or rename the next manifest assigns no new
\* file_id.
C36_CrashKeepsIdentityStoreValid ==
  [][/\ last'.op = "crash"
     /\ Consistent(Cur)
     => /\ Consistent(Cur')
        /\ last'.during \in {"delete", "rename"} => NoFreshId(Cur')]_vars

\* The Identity Store of the stores s is empty while the manifest file
\* lists files: the store was lost and the manifest survived.
StoreLost(s) == ~isVaultBootstrapped(s) /\ s.mfile.exists /\ s.mfile.rows # {}

\* C37: the manifest served after the Identity Store was lost reports each
\* tracked path that the surviving manifest file lists under the file_id
\* that the file lists for it, and leaves the rows of the manifest file as
\* they were.
C37_IdentityRebuiltFromManifest ==
  [][last'.op = "manifest" /\ StoreLost(Cur) =>
       /\ \A i \in 1..Len(last'.files) :
            \A row \in mfile.rows :
              row[2] = last'.files[i].path => row[1] = last'.files[i].file_id
       /\ mfile'.rows = mfile.rows]_vars

----------------------------------------------------------------------------
(* Vault isolation.                                                        *)

\* C38: no request addressed to the vault v1, whatever its path, creates,
\* changes or removes a file outside the directory of v1.
C38_RequestsStayInTheirVault ==
  [][getCurrentFile(Cur', EscapingPath) = getCurrentFile(Cur, EscapingPath)]_vars

----------------------------------------------------------------------------
(* Linear history.                                                         *)

\* Commit a is c or one of its ancestors in the object store objs.
RECURSIVE IsAncestor(_, _, _)
IsAncestor(objs, a, c) ==
  IF c = 0 THEN FALSE
  ELSE IF a = c THEN TRUE
  ELSE IsAncestor(objs, a, objs[c].parent)

\* The commits a successful write hands to the client.
ReturnedCommits(resp) ==
  IF resp.op \in {"sync", "rename", "delete"}
  THEN (IF resp.success THEN {resp.commit} ELSE {})
  ELSE IF resp.op = "v2"
  THEN {resp.results[k].commit :
          k \in {j \in 1..Len(resp.results) : resp.results[j].success}}
         \cup {resp.head_commit}
  ELSE {}

\* C39: the HEAD an operation found, and every commit a successful write
\* returns, is the HEAD the operation leaves or one of its ancestors.
C39_HistoryAppendOnly ==
  [][/\ IsAncestor(objects', head, head')
     /\ \A c \in ReturnedCommits(last') \ {0} : IsAncestor(objects', c, head')]_vars

----------------------------------------------------------------------------
(* Content hashes.                                                         *)

\* C40: the content_hash of every active identity record whose
\* current_path exists is the hash of the bytes stored at that path.
C40_HashesMatchStoredBytes ==
  \A f \in ActiveIds(recs) :
    recs[f].path \in DOMAIN files =>
      recs[f].hash = computeHash(files[recs[f].path])

============================================================================
